---- MODULE Spec2Model ----
(***************************************************************************)
(* A model of the HarmonyOS app-testing knowledge graph: the in-memory     *)
(* GraphStore (kg_core/graph_store.py), the Transition statistics          *)
(* (kg_core/schema.py), the in-memory VectorIndex (kg_core/vector_store.py)*)
(* and the query layer built on them (kg_query/path_finder.py,             *)
(* agent_interface/kg_client.py, api/routes.py).                           *)
(*                                                                         *)
(* Python dicts are insertion ordered; a dict is modelled as a sequence of *)
(* records in insertion order, a key overwritten keeps its position.       *)
(* md5-derived identifiers are modelled as the tuple that is hashed (the   *)
(* hash is taken to be collision free).  Floats that are quotients of      *)
(* small integers are modelled as pairs <<numerator, denominator>>.        *)
(***************************************************************************)
EXTENDS Integers, Sequences, FiniteSets, TLC

\* ------------------------------------------------------------ universes
PageIds == {"home", "list", "detail"}
\* The pages the learning specification reports traversals between, and
\* the (source, target) pairs it reports.
LearnPages == {"home", "list"}
LearnPairs == {<<"home", "list">>, <<"list", "home">>}
ActionTypes == {"click", "swipe"}
Latencies == {0, 3}

\* Bounds of the model (guards in the next-state relations).
MaxTransitions == 2
MaxCount == 3
MaxEdges == 4
MaxReports == 3
MaxReachEdges == 3
MaxVisits == 2
MaxEntries == 2
MaxCandidates == 3
MaxBatch == 2
MaxRounds == 3

None == [none |-> TRUE]
\* None in a place that holds an id (a string).
NoneId == "None"

VARIABLES
    pages,        \* MemoryGraphStore.pages: page id -> the Page stored
    transitions,  \* MemoryGraphStore.transitions: dict, in insertion order
    nodes,        \* MemoryGraphStore.graph: its nodes
    edges,        \* MemoryGraphStore.graph: (source, target) -> edge data
    reply,        \* the last operation and what it answered
    observed,     \* history: transition_id -> observations made of the object
    runA, runB,   \* two Transition objects fed with reports, and the reports
    intents,      \* VectorStoreManager.intents: its vectors and metadata
    pageVectors,  \* VectorStoreManager.pages: its vectors and metadata
    page_hash_cache,  \* GraphBuilder._page_hash_cache: state hash -> page id
    returned,     \* history: (app_id, ui_hierarchy) -> page id last returned
    collected,    \* the candidates list a match_page call has collected
    agent         \* the agent following the recommendations, or None

vars == <<pages, transitions, nodes, edges, reply, observed, runA, runB,
          intents, pageVectors, page_hash_cache, returned, collected, agent>>
graphVars == <<pages, transitions, nodes, edges, reply, observed>>
statVars == <<runA, runB>>
vectorVars == <<intents, pageVectors>>
builderVars == <<page_hash_cache, returned>>
queryVars == <<collected, agent>>

\* ------------------------------------------------------------ schema.py
\* Transition.generate_id: md5 of "source->target:action", modelled as the
\* tuple hashed.
generate_id(source_id, target_id, action) == <<source_id, target_id, action>>

\* The Transition dataclass; the statistics default to 0.
Transition(source_id, target_id, action, success_count, fail_count, avg) ==
    [transition_id   |-> generate_id(source_id, target_id, action),
     source_page_id  |-> source_id,
     target_page_id  |-> target_id,
     action_type     |-> action,
     success_count   |-> success_count,
     fail_count      |-> fail_count,
     avg_latency_ms  |-> avg]

\* Transition.success_rate, the float success_count / total as a fraction.
success_rate(t) ==
    LET total == t.success_count + t.fail_count
    IN  IF total > 0 THEN <<t.success_count, total>> ELSE <<0, 1>>

\* Transition.to_dict: the snapshot handed to the graph as edge data.
to_dict(t) ==
    [transition_id  |-> t.transition_id,
     source_page_id |-> t.source_page_id,
     target_page_id |-> t.target_page_id,
     action_type    |-> t.action_type,
     success_rate   |-> success_rate(t),
     success_count  |-> t.success_count]

\* Page.state_hash when none was computed (the empty string).  A hash is
\* modelled as the hierarchy hashed, so the empty one is the hash of no
\* hierarchy: it differs from every computed hash.
NoStateHash == [title |-> ""]

\* The Page dataclass: the fields the stores and queries read; intents
\* defaults to the empty list and visit_count to 0.
Page(page_id, page_name, app_id, state_hash, description) ==
    [page_id     |-> page_id,
     page_name   |-> page_name,
     app_id      |-> app_id,
     state_hash  |-> state_hash,
     description |-> description,
     intents     |-> <<>>,
     widgets     |-> <<>>,
     visit_count |-> 0]

\* Equality of two floats given as fractions.
RatEq(a, b) == a[1] * b[2] = b[1] * a[2]

\* ------------------------------------------------------- graph_store.py
\* dict[key] = value on an insertion-ordered dict keyed by transition_id.
DictPut(d, t) ==
    IF \E i \in DOMAIN d : d[i].transition_id = t.transition_id
    THEN [i \in DOMAIN d |->
            IF d[i].transition_id = t.transition_id THEN t ELSE d[i]]
    ELSE Append(d, t)

\* key in dict
HasKey(d, tid) == \E i \in DOMAIN d : d[i].transition_id = tid

\* dict[key]
DictGet(d, tid) == d[CHOOSE i \in DOMAIN d : d[i].transition_id = tid]

\* MemoryGraphStore.get_transition: the first transition, in dict order,
\* between the two pages; the action kind is not looked at.
get_transition(d, source_id, target_id) ==
    LET hits == {i \in DOMAIN d : /\ d[i].source_page_id = source_id
                                  /\ d[i].target_page_id = target_id}
    IN  IF hits = {} THEN None
        ELSE d[CHOOSE i \in hits : \A j \in hits : i <= j]

\* The mutant counts every report as a success.
UpdatedStatsAllSuccess(t, success, latency_ms) ==
    LET total == t.success_count + 1 + t.fail_count
    IN  [t EXCEPT !.success_count = t.success_count + 1,
                  !.avg_latency_ms =
                      (t.avg_latency_ms * (total - 1) + latency_ms) \div total]

\* The statistics of one Transition after update_transition_stats.
UpdatedStats(t, success, latency_ms) ==
    LET sc    == IF success THEN t.success_count + 1 ELSE t.success_count
        fc    == IF success THEN t.fail_count ELSE t.fail_count + 1
        total == sc + fc
    IN  [t EXCEPT !.success_count = sc,
                  !.fail_count = fc,
                  !.avg_latency_ms =
                      (t.avg_latency_ms * (total - 1) + latency_ms) \div total]

\* MemoryGraphStore.update_transition_stats on the transitions dict: the
\* Transition object is changed in place, an unknown id changes nothing.
update_transition_stats(d, tid, success, latency_ms) ==
    [i \in DOMAIN d |->
        IF d[i].transition_id = tid
        THEN UpdatedStats(d[i], success, latency_ms)
        ELSE d[i]]

\* self.pages[page.page_id] = page.  The mutant keeps the Page already
\* stored under the id.
PutPageIfAbsent(P, page) ==
    [x \in (DOMAIN P) \cup {page.page_id} |->
        IF x \in DOMAIN P THEN P[x] ELSE page]

PutPage(P, page) ==
    [x \in (DOMAIN P) \cup {page.page_id} |->
        IF x = page.page_id THEN page ELSE P[x]]

\* MemoryGraphStore.get_page: self.pages.get(page_id)
get_page(P, page_id) == IF page_id \in DOMAIN P THEN P[page_id] ELSE None

\* The Page a caller builds for page id p when it gives the id, the id as
\* name and the app, and leaves the other fields at their defaults.
DefaultPage(p) == Page(p, p, "app", NoStateHash, "")

\* graph.add_edge(source, target, **transition.to_dict())
AddEdge(E, t) ==
    LET e == <<t.source_page_id, t.target_page_id>>
    IN  [x \in (DOMAIN E) \cup {e} |-> IF x = e THEN to_dict(t) ELSE E[x]]

\* MemoryGraphStore.add_transition as a step of the store.
StoreAddTransition(t) ==
    /\ transitions' = DictPut(transitions, t)
    /\ nodes' = nodes \cup {t.source_page_id, t.target_page_id}
    /\ edges' = AddEdge(edges, t)
    /\ pages' = pages

\* graph.successors(n): the targets of the edges leaving n.  The mutant
\* follows the edges backwards.
SuccessorsReversed(E, n) == {m \in PageIds : <<m, n>> \in DOMAIN E}

Successors(E, n) == {m \in PageIds : <<n, m>> \in DOMAIN E}

\* Breadth-first search from a frontier: the sequence of levels, level k + 1
\* holding the nodes first reached after k hops.
RECURSIVE BfsLevels(_, _, _, _)
BfsLevels(E, frontier, visited, levels) ==
    IF frontier = {} THEN levels
    ELSE LET next == (UNION {Successors(E, n) : n \in frontier}) \ visited
         IN  BfsLevels(E, next, visited \cup next, Append(levels, frontier))

\* PathResult for a page sequence: the edge data of every hop (the code
\* skips a hop whose edge data is empty; to_dict never is), and the count.
PathResult(E, path) ==
    [pages       |-> path,
     transitions |-> [i \in 1..(Len(path) - 1) |-> E[<<path[i], path[i + 1]>>]],
     total_steps |-> Len(path) - 1]

\* MemoryGraphStore.find_shortest_path: nx.shortest_path is a breadth-first
\* search; which of several shortest paths it returns depends on the order
\* the adjacency was filled in, so the result is given as the set of the
\* outcomes: {None} (NodeNotFound, NetworkXNoPath), or the PathResults of
\* the paths that step through the BFS levels.
find_shortest_path(N, E, start_id, end_id) ==
    IF start_id \notin N \/ end_id \notin N THEN {None}
    ELSE LET levels == BfsLevels(E, {start_id}, {start_id}, <<>>)
             hit    == {k \in DOMAIN levels : end_id \in levels[k]}
         IN  IF hit = {} THEN {None}
             ELSE LET d == CHOOSE k \in hit : TRUE
                  IN  {PathResult(E, path) : path \in
                         {q \in [1..d -> N] :
                            /\ q[1] = start_id
                            /\ q[d] = end_id
                            /\ \A i \in 1..d : q[i] \in levels[i]
                            /\ \A i \in 1..(d - 1) : <<q[i], q[i + 1]>> \in DOMAIN E}}

\* The adjacency of node n in the order networkx keeps it: the targets of
\* the edges leaving n, in the order of their first add_edge.  The
\* transitions dict keeps every id at its first position, so the order is
\* read off the dict d.
RECURSIVE SuccessorSeq(_, _)
SuccessorSeq(d, n) ==
    IF d = <<>> THEN <<>>
    ELSE LET rest == SuccessorSeq(SubSeq(d, 1, Len(d) - 1), n)
             t    == d[Len(d)]
         IN  IF /\ t.source_page_id = n
                /\ \A i \in DOMAIN rest : rest[i] # t.target_page_id
             THEN Append(rest, t.target_page_id)
             ELSE rest

\* nx.all_simple_paths: depth-first along the adjacency order; visited is
\* the path walked so far, a path of more than cutoff hops is not followed,
\* and the search does not pass through the target.
RECURSIVE SimplePaths(_, _, _, _), SimplePathsVia(_, _, _, _, _)
SimplePathsVia(d, visited, children, target, cutoff) ==
    IF children = <<>> THEN <<>>
    ELSE LET child == Head(children)
             here  == IF \E i \in DOMAIN visited : visited[i] = child THEN <<>>
                      ELSE IF child = target THEN <<Append(visited, child)>>
                      ELSE SimplePaths(d, Append(visited, child), target, cutoff)
         IN  here \o SimplePathsVia(d, visited, Tail(children), target, cutoff)

SimplePaths(d, visited, target, cutoff) ==
    IF Len(visited) > cutoff THEN <<>>
    ELSE SimplePathsVia(d, visited, SuccessorSeq(d, visited[Len(visited)]),
                        target, cutoff)

\* MemoryGraphStore.find_all_paths: the first five simple paths networkx
\* enumerates, as PathResults; any exception (an endpoint that is no node)
\* gives the empty list.  For start = end the library answers, by version,
\* nothing or the single path [start]: both outcomes are in the set.
find_all_paths(N, E, d, start_id, end_id, max_length) ==
    IF start_id \notin N \/ end_id \notin N THEN {<<>>}
    ELSE IF start_id = end_id THEN {<<>>, <<PathResult(E, <<start_id>>)>>}
    ELSE IF max_length < 1 THEN {<<>>}
    ELSE LET paths == SimplePaths(d, <<start_id>>, end_id, max_length)
             n     == IF Len(paths) < 5 THEN Len(paths) ELSE 5
         IN  {[i \in 1..n |-> PathResult(E, paths[i])]}

\* The permutations of a finite set: the lists list(a_set) can answer.
Orderings(S) ==
    {f \in [1..Cardinality(S) -> S] :
        \A i \in DOMAIN f, j \in DOMAIN f : f[i] = f[j] => i = j}

\* The depth test of get_reachable_pages.  The mutant stops one hop early.
TooDeepAtLimit(depth, max_depth) == depth >= max_depth

TooDeep(depth, max_depth) == depth > max_depth

\* The while loop of get_reachable_pages: the head of the queue is skipped
\* when visited or too deep, else visited, its successors that are not
\* visited queued one hop deeper, in adjacency order.
RECURSIVE ReachLoop(_, _, _, _)
ReachLoop(d, queue, visited, max_depth) ==
    IF queue = <<>> THEN visited
    ELSE LET page_id == queue[1][1]
             depth   == queue[1][2]
         IN  IF page_id \in visited \/ TooDeep(depth, max_depth)
             THEN ReachLoop(d, Tail(queue), visited, max_depth)
             ELSE LET seen == visited \cup {page_id}
                      succ == SuccessorSeq(d, page_id)
                      new  == SelectSeq(succ, LAMBDA n : n \notin seen)
                  IN  ReachLoop(d,
                                Tail(queue) \o
                                   [i \in DOMAIN new |-> <<new[i], depth + 1>>],
                                seen, max_depth)

\* MemoryGraphStore.get_reachable_pages: list(visited) in any order; for a
\* start that is no node of the graph graph.successors raises and the
\* answer is [start_id].
get_reachable_pages(N, d, start_id, max_depth) ==
    IF start_id \notin N /\ ~TooDeep(0, max_depth) THEN {<<start_id>>}
    ELSE Orderings(ReachLoop(d, <<<<start_id, 0>>>>, {}, max_depth))

\* The one app of the models that use a single app.
AppId == "app"

\* The ids of the pages find_page_by_name compares equal: the name, and
\* the application when one is given.
PagesNamed(P, page_name, app_id) ==
    {id \in DOMAIN P :
        /\ P[id].page_name = page_name
        /\ (app_id = NoneId \/ P[id].app_id = app_id)}

\* MemoryGraphStore.find_page_by_name: the first Page in dict order with
\* the name (and the app when one is given).  The order of the pages dict
\* is not kept, so the answer is the set of the ids that can be first.
find_page_by_name(P, page_name, app_id) ==
    IF PagesNamed(P, page_name, app_id) = {} THEN {NoneId}
    ELSE PagesNamed(P, page_name, app_id)

\* MemoryGraphStore.get_all_pages: the ids of the pages of one application,
\* of all pages when no application is named.
get_all_pages(P, app_id) ==
    {id \in DOMAIN P : app_id = "" \/ P[id].app_id = app_id}

\* MemoryGraphStore.get_outgoing_transitions: the transitions leaving the
\* page, in the order of the transitions dict.
get_outgoing_transitions(d, page_id) ==
    LET Leaves(t) == t.source_page_id = page_id
    IN  SelectSeq(d, Leaves)

\* MemoryGraphStore.get_incoming_transitions: the transitions entering the
\* page, in the order of the transitions dict.
get_incoming_transitions(d, page_id) ==
    LET Enters(t) == t.target_page_id = page_id
    IN  SelectSeq(d, Enters)

\* ---------------------------------------------------------- embeddings.py
\* The texts that are embedded: intent texts and page descriptions.
Texts == {"order food", "pay", "menu"}

\* EmbeddingModel.encode_single: the injected text -> vector capability, a
\* fixed table of integer vectors ("menu" points the way "order food"
\* does, at twice the length).
encode_single(text) ==
    CASE text = "order food"          -> <<3, 4>>
      [] text = "pay"                 -> <<4, 3>>
      [] text = "menu"                -> <<6, 8>>
      [] text = "home"                -> <<3, 4>>
      [] text = "list"                -> <<4, 3>>
      [] text = "home contains: home" -> <<3, 4>>
      [] text = "list contains: list" -> <<4, 3>>
      [] OTHER                        -> <<0, 5>>

\* -------------------------------------------------------- vector_store.py
\* np.dot of two integer vectors.
RECURSIVE IntDot(_, _)
IntDot(a, b) ==
    IF a = <<>> THEN 0
    ELSE Head(a) * Head(b) + IntDot(Tail(a), Tail(b))

\* np.linalg.norm, for the vectors whose norm is an integer.
Norm(v) == CHOOSE n \in 0..IntDot(v, v) : n * n = IntDot(v, v)

\* The vector kept as it is given, the division by the norm left out.
NormalizeNever(v) == [num |-> v, den |-> 1]

\* vec / norm when norm > 0: the unit vector as numerators over one
\* denominator.
Normalize(v) == [num |-> v, den |-> IF Norm(v) > 0 THEN Norm(v) ELSE 1]

\* float(np.dot(query, vec)) of two normalised vectors, as a fraction.
Dot(a, b) == <<IntDot(a.num, b.num), a.den * b.den>>

\* a < b for floats given as fractions with positive denominators.
RatLess(a, b) == a[1] * b[2] < b[1] * a[2]

\* MemoryVectorStore.__init__: the two dicts of one collection, vectors in
\* insertion order and the metadata by id.
EmptyStore == [vectors |-> <<>>, metadata |-> <<>>]

\* The {} that metadata.get(id, {}) falls back to.
EmptyDict == [empty |-> TRUE]

\* self.metadata.get(id, {}).
MetadataGet(store, id) ==
    IF id \in DOMAIN store.metadata THEN store.metadata[id] ELSE EmptyDict

\* The ids of self.vectors, in the order the dict iterates them.
VectorIds(store) == {store.vectors[i].id : i \in DOMAIN store.vectors}

\* MemoryVectorStore.insert: the vector is normalised and stored under the
\* id, then the metadata is stored under the id; a known id keeps its
\* position in the dict.
insert(store, id, vector, metadata) ==
    LET entry == [id |-> id, vector |-> Normalize(vector)]
        vecs  == store.vectors
    IN  [vectors  |-> IF id \in VectorIds(store)
                      THEN [i \in DOMAIN vecs |->
                               IF vecs[i].id = id THEN entry ELSE vecs[i]]
                      ELSE Append(vecs, entry),
         metadata |-> [k \in DOMAIN store.metadata \cup {id} |->
                          IF k = id THEN metadata ELSE store.metadata[k]]]

\* list.sort(key=score, reverse=True): descending and stable, i.e. the
\* first of the entries with the highest score, then the rest sorted.
RECURSIVE Sorted(_)
Sorted(scores) ==
    IF scores = <<>> THEN <<>>
    ELSE LET top == CHOOSE i \in DOMAIN scores :
                       /\ \A j \in DOMAIN scores :
                             ~RatLess(scores[i].score, scores[j].score)
                       /\ \A j \in 1..(i - 1) :
                             RatLess(scores[j].score, scores[i].score)
         IN  <<scores[top]>> \o
             Sorted(SubSeq(scores, 1, top - 1) \o
                    SubSeq(scores, top + 1, Len(scores)))

\* scores[:top_k + 1], one entry more than asked for.
CutInclusive(scores, top_k) ==
    SubSeq(scores, 1, IF Len(scores) < top_k + 1 THEN Len(scores) ELSE top_k + 1)

\* scores[:top_k] of a list, for top_k >= 0.
Cut(scores, top_k) ==
    SubSeq(scores, 1, IF Len(scores) < top_k THEN Len(scores) ELSE top_k)

\* The SearchResults built from the (id, score) pairs that are kept.
Results(store, scores) ==
    [i \in DOMAIN scores |->
        [id       |-> scores[i].id,
         score    |-> scores[i].score,
         metadata |-> MetadataGet(store, scores[i].id)]]

\* MemoryVectorStore.search: the top_k SearchResults by cosine similarity.
search(store, query_vector, top_k) ==
    LET query  == Normalize(query_vector)
        vecs   == store.vectors
        scores == Sorted([i \in DOMAIN vecs |->
                     [id    |-> vecs[i].id,
                      score |-> Dot(query, vecs[i].vector)]])
    IN  Results(store, Cut(scores, top_k))

\* The predicates on a metadata dict that search_with_filter is called
\* with; NoneId stands for filter_fn = None.
FilterFns == {NoneId, "is_app", "is_other"}

\* filter_fn(metadata) for a named predicate: metadata.get("app_id") is
\* compared with the application the predicate names.
Apply(filter_fn, metadata) ==
    /\ "app_id" \in DOMAIN metadata
    /\ metadata.app_id = (IF filter_fn = "is_app" THEN "app" ELSE "other")

\* The (id, score) pairs search_with_filter keeps when the predicate were
\* applied to the results of search, after the cut.
KeptAfterCut(store, filter_fn, scored, top_k) ==
    LET Keep(s) == filter_fn = NoneId \/ Apply(filter_fn, MetadataGet(store, s.id))
    IN  SelectSeq(Cut(Sorted(scored), top_k), Keep)

\* The (id, score) pairs search_with_filter keeps: the loop skips an entry
\* whose metadata fails the predicate, the rest is sorted and cut.
Kept(store, filter_fn, scored, top_k) ==
    LET Keep(s) == filter_fn = NoneId \/ Apply(filter_fn, MetadataGet(store, s.id))
    IN  Cut(Sorted(SelectSeq(scored, Keep)), top_k)

\* MemoryVectorStore.search_with_filter.
search_with_filter(store, query_vector, top_k, filter_fn) ==
    LET query  == Normalize(query_vector)
        vecs   == store.vectors
        scored == [i \in DOMAIN vecs |->
                     [id    |-> vecs[i].id,
                      score |-> Dot(query, vecs[i].vector)]]
    IN  Results(store, Kept(store, filter_fn, scored, top_k))

\* MemoryVectorStore.get: the stored vector and the metadata of an id, or
\* None.
get(store, id) ==
    IF id \in VectorIds(store)
    THEN LET i == CHOOSE j \in DOMAIN store.vectors : store.vectors[j].id = id
         IN  <<store.vectors[i].vector, MetadataGet(store, id)>>
    ELSE None

\* del self.metadata[id], the second half of delete, left out.
DropMetadataNever(metadata, id) == metadata

\* del self.metadata[id] when the id is a key of the metadata dict.
DropMetadata(metadata, id) ==
    [k \in DOMAIN metadata \ {id} |-> metadata[k]]

\* MemoryVectorStore.delete: the id leaves each dict that holds it.
delete(store, id) ==
    LET Other(e) == e.id # id
    IN  [vectors  |-> SelectSeq(store.vectors, Other),
         metadata |-> DropMetadata(store.metadata, id)]

\* MemoryVectorStore.clear.
clear(store) == [vectors |-> <<>>, metadata |-> <<>>]

\* MemoryVectorStore.count: len(self.vectors).
count(store) == Len(store.vectors)

\* ---------------------------------------------------------- path_finder.py
\* The name find_path_by_intent looks the start page up by when no current
\* page is given.
HomePageName == "home"

\* max_steps of find_path_by_intent when the caller gives none.
DefaultMaxSteps == 10

\* len(path.steps), the ActionPath.total_steps property.
total_steps(path) == Len(path.steps)

\* PathFinder._build_action_path: one ActionStep per hop payload, the page
\* the hop leads to as expected_page_id; confidence at its default 0.0.
build_action_path(path_result) ==
    [steps |-> [i \in DOMAIN path_result.transitions |->
                  [step_index       |-> i,
                   action_type      |-> path_result.transitions[i].action_type,
                   expected_page_id |-> IF i + 1 <= Len(path_result.pages)
                                        THEN path_result.pages[i + 1] ELSE "",
                   success_rate     |-> path_result.transitions[i].success_rate]],
     start_page_id |-> path_result.pages[1],
     end_page_id   |-> path_result.pages[Len(path_result.pages)],
     confidence    |-> <<0, 1>>]

\* QueryResult(success=False, message=...): no path, confidence 0.0.
Failure(message) ==
    [success      |-> FALSE,
     path         |-> None,
     alternatives |-> None,
     message      |-> message,
     confidence   |-> <<0, 1>>]

\* Steps 4 and 5 of find_path_by_intent: the target page and the confidence
\* from the best intent match, else from the best page match.  The mutant
\* keeps the intent match's score when it falls back to the pages.
ResolveTargetKeepingScore(similar_intents, page_results) ==
    LET first == IF similar_intents # <<>>
                 THEN [target_page_id |-> similar_intents[1].metadata.target_page_id,
                       confidence     |-> similar_intents[1].score]
                 ELSE [target_page_id |-> NoneId, confidence |-> <<0, 1>>]
    IN  IF first.target_page_id = NoneId /\ page_results # <<>>
        THEN [target_page_id |-> page_results[1].id,
              confidence     |-> first.confidence]
        ELSE first

ResolveTarget(similar_intents, page_results) ==
    LET first == IF similar_intents # <<>>
                 THEN [target_page_id |-> similar_intents[1].metadata.target_page_id,
                       confidence     |-> similar_intents[1].score]
                 ELSE [target_page_id |-> NoneId, confidence |-> <<0, 1>>]
    IN  IF first.target_page_id = NoneId /\ page_results # <<>>
        THEN [target_page_id |-> page_results[1].id,
              confidence     |-> page_results[1].score]
        ELSE first

\* Step 8 of find_path_by_intent: the second and third of all_paths as
\* alternatives, at 0.8 times the confidence, each with its reason.
Alternatives(all_paths, path_result, confidence) ==
    LET n == IF Len(all_paths) < 3 THEN Len(all_paths) - 1 ELSE 2
    IN  [i \in 1..n |->
            LET alt_path == build_action_path(all_paths[i + 1])
            IN  [steps         |-> alt_path.steps,
                 start_page_id |-> alt_path.start_page_id,
                 end_page_id   |-> alt_path.end_page_id,
                 confidence    |-> <<confidence[1] * 4, confidence[2] * 5>>,
                 reason        |-> IF all_paths[i + 1].total_steps <
                                      path_result.total_steps
                                   THEN "shorter" ELSE "alternative"]]

\* PathFinder.find_path_by_intent on the stores as they are: the set of the
\* QueryResults it can answer (one for each outcome of the graph searches).
find_path_by_intent(app_id, intent, current_page_id, max_steps) ==
    LET intent_vec      == encode_single(intent)
        similar_intents == search(intents, intent_vec, 3)
        starts == IF current_page_id # NoneId THEN {current_page_id}
                  ELSE find_page_by_name(pages, HomePageName, app_id)
        resolved == ResolveTarget(similar_intents,
                                  search(pageVectors, intent_vec, 3))
        From(start) ==
            IF start = NoneId THEN {Failure("no start page")}
            ELSE IF resolved.target_page_id = NoneId
            THEN {Failure("no target page")}
            ELSE {IF path_result = None THEN Failure("unreachable")
                  ELSE [success      |-> TRUE,
                        path         |-> [build_action_path(path_result) EXCEPT
                                             !.confidence = resolved.confidence],
                        alternatives |-> Alternatives(all_paths, path_result,
                                                      resolved.confidence),
                        message      |-> "found",
                        confidence   |-> resolved.confidence] :
                     path_result \in find_shortest_path(nodes, edges, start,
                                                        resolved.target_page_id),
                     all_paths \in find_all_paths(nodes, edges, transitions, start,
                                                  resolved.target_page_id, max_steps)}
    IN  UNION {From(start) : start \in starts}

\* PathFinder.get_next_action, from the QueryResult on: the first step and
\* the count of the steps after it, or None.
next_action(result) ==
    IF result.success /\ result.path.steps # <<>>
    THEN [action          |-> result.path.steps[1].action_type,
          expected_page   |-> result.path.steps[1].expected_page_id,
          remaining_steps |-> total_steps(result.path) - 1]
    ELSE None

\* max_depth of get_reachable_pages when the caller gives none.
DefaultMaxDepth == 5

\* PathFinder.get_reachable_intents: the intents of the stored pages among
\* get_reachable_pages(current_page_id), as list(set(intents)) can order
\* them.
get_reachable_intents(current_page_id) ==
    LET Intents(reachable_pages) ==
            UNION {{get_page(pages, reachable_pages[i]).intents[j] :
                       j \in DOMAIN get_page(pages, reachable_pages[i]).intents} :
                   i \in {x \in DOMAIN reachable_pages :
                             get_page(pages, reachable_pages[x]) # None}}
    IN  UNION {Orderings(Intents(reachable_pages)) :
                  reachable_pages \in get_reachable_pages(nodes, transitions,
                                                          current_page_id,
                                                          DefaultMaxDepth)}

\* ------------------------------------------------------------ kg_client.py
\* KGClient.get_next_action (local mode), from PathFinder's answer on: the
\* ActionRecommendation.
recommendation(answer) ==
    IF answer # None
    THEN [action_type     |-> answer.action,
          expected_page   |-> answer.expected_page,
          is_complete     |-> (answer.remaining_steps = 0),
          remaining_steps |-> answer.remaining_steps]
    ELSE [action_type     |-> "",
          expected_page   |-> "",
          is_complete     |-> TRUE,
          remaining_steps |-> 0]

\* ActionRecommendation.to_dict
recommendation_to_dict(rec) ==
    IF rec.is_complete
    THEN [action |-> None, is_complete |-> TRUE, remaining_steps |-> 0]
    ELSE [action          |-> [action_type   |-> rec.action_type,
                               expected_page |-> rec.expected_page],
          is_complete     |-> rec.is_complete,
          remaining_steps |-> rec.remaining_steps]

\* --------------------------------------------------------------- routes.py
\* POST /api/v1/query/next-action on a QueryResult of find_path_by_intent:
\* an ActionRecommendation object is always truthy, so its to_dict is the
\* reply.
get_next_action(result) == recommendation_to_dict(recommendation(next_action(result)))

\* The history kept of a Transition object: observations made of it.
Observe(obs, tid, k, m) ==
    [x \in (DOMAIN obs) \cup {tid} |-> IF x = tid THEN [k |-> k, m |-> m] ELSE obs[x]]

\* ------------------------------------------------------------ actions
Init ==
    /\ pages = <<>>
    /\ transitions = <<>>
    /\ nodes = {}
    /\ edges = <<>>
    /\ reply = [op |-> "init"]
    /\ observed = <<>>
    /\ runA = [t |-> Transition("home", "list", "click", 0, 0, 0), reports |-> <<>>]
    /\ runB = [t |-> Transition("home", "list", "click", 0, 0, 0), reports |-> <<>>]
    /\ intents = EmptyStore
    /\ pageVectors = EmptyStore
    /\ page_hash_cache = <<>>
    /\ returned = <<>>
    /\ collected = <<>>
    /\ agent = None

\* MemoryGraphStore.add_page: the Page is stored under its id and the id
\* becomes a node of the graph.
AddPage(page) ==
    /\ pages' = PutPage(pages, page)
    /\ nodes' = nodes \cup {page.page_id}
    /\ reply' = [op |-> "add_page"]
    /\ UNCHANGED <<transitions, edges, observed, statVars, vectorVars, builderVars, queryVars>>

\* MemoryGraphStore.add_transition with a freshly built Transition whose
\* statistics are at the dataclass defaults (0, 0, 0).
AddTransition(s, t, a) ==
    /\ StoreAddTransition(Transition(s, t, a, 0, 0, 0))
    /\ observed' = Observe(observed, generate_id(s, t, a), 0, 0)
    /\ reply' = [op |-> "add_transition"]
    /\ UNCHANGED <<statVars, vectorVars, builderVars, queryVars>>

\* GraphBuilder.add_transition_from_action: a new Transition object with
\* success_count = 1 is stored under the derived id.
AddTransitionFromAction(s, t, a) ==
    /\ StoreAddTransition(Transition(s, t, a, 1, 0, 0))
    /\ observed' = Observe(observed, generate_id(s, t, a), 1, 0)
    /\ reply' = [op |-> "add_transition_from_action"]
    /\ UNCHANGED <<statVars, vectorVars, builderVars, queryVars>>

\* MemoryGraphStore.update_transition_stats
UpdateTransitionStats(tid, success, latency_ms) ==
    /\ transitions' = update_transition_stats(transitions, tid, success, latency_ms)
    /\ observed' =
          IF HasKey(transitions, tid)
          THEN Observe(observed, tid,
                       observed[tid].k + (IF success THEN 1 ELSE 0),
                       observed[tid].m + (IF success THEN 0 ELSE 1))
          ELSE observed
    /\ reply' = [op |-> "update_transition_stats"]
    /\ UNCHANGED <<pages, nodes, edges, statVars, vectorVars, builderVars, queryVars>>

\* KGClient.report_transition (local mode): what it answers.
ReportReply(from_page, action, to_page, success, transition_id, is_updated, d) ==
    LET updated_transition == get_transition(d, from_page, to_page)
    IN  [op            |-> "report_transition",
         from_page     |-> from_page,
         action        |-> action,
         to_page       |-> to_page,
         reported      |-> success,
         transition_id |-> transition_id,
         updated       |-> is_updated,
         stats         |->
            IF updated_transition # None
            THEN [success_count |-> updated_transition.success_count,
                  fail_count    |-> updated_transition.fail_count,
                  success_rate  |-> success_rate(updated_transition)]
            ELSE [success_count |-> 0, fail_count |-> 0, success_rate |-> <<0, 1>>]]

\* KGClient.report_transition (local mode): find or create the transition.
ReportTransition(from_page, action, to_page, success, latency_ms) ==
    LET transition == get_transition(transitions, from_page, to_page)
    IN  IF transition # None
        THEN /\ transitions' = update_transition_stats(
                     transitions, transition.transition_id, success, latency_ms)
             /\ UNCHANGED <<pages, nodes, edges>>
             /\ reply' = ReportReply(from_page, action, to_page, success,
                                     transition.transition_id, TRUE, transitions')
             /\ observed' = Observe(observed, reply'.transition_id,
                     observed[reply'.transition_id].k + (IF success THEN 1 ELSE 0),
                     observed[reply'.transition_id].m + (IF success THEN 0 ELSE 1))
             /\ UNCHANGED <<statVars, vectorVars, builderVars, queryVars>>
        ELSE LET trans == Transition(from_page, to_page, action,
                                     IF success THEN 1 ELSE 0,
                                     IF success THEN 0 ELSE 1,
                                     latency_ms)
             IN  /\ StoreAddTransition(trans)
                 /\ reply' = ReportReply(from_page, action, to_page, success,
                                         trans.transition_id, FALSE, transitions')
                 /\ observed' = Observe(observed, reply'.transition_id,
                                        IF success THEN 1 ELSE 0,
                                        IF success THEN 0 ELSE 1)
                 /\ UNCHANGED <<statVars, vectorVars, builderVars, queryVars>>

\* ------------------------------------------------------------ rag_engine.py
\* The first n of a list: list[:n].
FirstN(list, n) == SubSeq(list, 1, IF Len(list) < n THEN Len(list) ELSE n)

\* Step 2 of retrieve: the stored pages among the top_k of the pages
\* collection, with the similarity found.
retrieved_pages(query_vec, top_k) ==
    LET page_results == search(pageVectors, query_vec, top_k)
        Stored(r) == get_page(pages, r.id) # None
        found == SelectSeq(page_results, Stored)
    IN  [i \in DOMAIN found |->
            [id          |-> found[i].id,
             name        |-> get_page(pages, found[i].id).page_name,
             description |-> get_page(pages, found[i].id).description,
             similarity  |-> found[i].score]]

\* Step 3 of retrieve on a QueryResult: the path and its alternatives.
retrieved_paths(path_result) ==
    IF path_result.success
    THEN <<path_result.path>> \o path_result.alternatives
    ELSE <<>>

\* Step 3 of retrieve on a QueryResult: the path's first step as a
\* suggestion, at the confidence of the resolution.
first_step_suggestion(path_result) ==
    IF path_result.success /\ path_result.path.steps # <<>>
    THEN <<[action     |-> path_result.path.steps[1].action_type,
            leads_to   |-> path_result.path.steps[1].expected_page_id,
            confidence |-> path_result.confidence]>>
    ELSE <<>>

\* Step 4 of retrieve: the first five outgoing transitions of the current
\* page, in the order of get_outgoing_transitions, each at its success rate.
outgoing_suggestions(current_page_id) ==
    LET first == FirstN(get_outgoing_transitions(transitions, current_page_id), 5)
    IN  [i \in DOMAIN first |->
            [action     |-> first[i].action_type,
             leads_to   |-> IF get_page(pages, first[i].target_page_id) # None
                            THEN get_page(pages, first[i].target_page_id).page_name
                            ELSE "",
             confidence |-> success_rate(first[i])]]

\* RAGEngine._build_graph_context: the parts of the description, for each
\* order get_reachable_pages can list the pages in.
build_graph_context(current_page_id, found_pages, paths) ==
    LET current_page == IF current_page_id = NoneId THEN None
                        ELSE get_page(pages, current_page_id)
        Named(pid) == get_page(pages, pid) # None /\ pid # current_page_id
        Names(reachable) ==
            LET kept == SelectSeq(FirstN(reachable, 5), Named)
            IN  [i \in DOMAIN kept |-> get_page(pages, kept[i]).page_name]
        reachables == IF current_page = None THEN {<<>>}
                      ELSE {Names(r) : r \in get_reachable_pages(nodes, transitions,
                                                                 current_page_id, 2)}
    IN  {[current   |-> IF current_page = None THEN NoneId ELSE current_page.page_name,
          reachable |-> names,
          paths     |-> Len(paths),
          pages     |-> [i \in DOMAIN FirstN(found_pages, 3) |-> found_pages[i].name]] :
            names \in reachables}

\* RAGEngine.retrieve with include_paths, include_pages and top_k = 5 as
\* by default: the RAGContexts it can return.
retrieve(app_id, query, current_page_id) ==
    LET query_vec == encode_single(query)
        found     == retrieved_pages(query_vec, 5)
        Context(path_result) ==
            LET paths == IF path_result = None THEN <<>>
                         ELSE retrieved_paths(path_result)
                first == IF path_result = None THEN <<>>
                         ELSE first_step_suggestion(path_result)
            IN  {[query             |-> query,
                  retrieved_paths   |-> paths,
                  retrieved_pages   |-> found,
                  graph_context     |-> graph_context,
                  suggested_actions |->
                      first \o (IF current_page_id # NoneId
                                THEN outgoing_suggestions(current_page_id)
                                ELSE <<>>),
                  confidence        |-> IF path_result # None /\ path_result.success
                                        THEN path_result.confidence
                                        ELSE <<0, 1>>] :
                    graph_context \in build_graph_context(current_page_id, found, paths)}
    IN  IF current_page_id = NoneId THEN Context(None)
        ELSE UNION {Context(path_result) :
                       path_result \in find_path_by_intent(app_id, query, current_page_id,
                                                           DefaultMaxSteps)}

\* Intent.generate_id: md5 of "app_id:intent_text", modelled as the tuple
\* hashed.
intent_generate_id(app_id, intent_text) == <<app_id, intent_text>>

\* KGClient.add_page (local mode): the page is stored, and when it has a
\* description the description's vector is inserted in the pages collection.
ClientAddPage(p, description) ==
    /\ pages' = PutPage(pages, Page(p, p, AppId, NoStateHash, description))
    /\ nodes' = nodes \cup {p}
    /\ pageVectors' =
          IF description # ""
          THEN insert(pageVectors, p, encode_single(description),
                      [name |-> p, description |-> description])
          ELSE pageVectors
    /\ reply' = [op |-> "client_add_page"]
    /\ UNCHANGED <<transitions, edges, observed, statVars, intents, builderVars, queryVars>>

\* KGClient.register_intent (local mode): the text's vector is inserted in
\* the intents collection with the target page as metadata.
RegisterIntent(intent_text, target_page) ==
    /\ intents' = insert(intents, intent_generate_id(AppId, intent_text),
                         encode_single(intent_text),
                         [text           |-> intent_text,
                          app_id         |-> AppId,
                          target_page_id |-> target_page])
    /\ reply' = [op |-> "register_intent"]
    /\ UNCHANGED <<pages, transitions, nodes, edges, observed, statVars,
                   pageVectors, builderVars, queryVars>>

\* PathFinder.get_reachable_intents as a step: it reads the graph store
\* and returns the list.
GetReachableIntents(current_page_id) ==
    /\ \E answer \in get_reachable_intents(current_page_id) :
          reply' = [op              |-> "get_reachable_intents",
                    current_page_id |-> current_page_id,
                    answer          |-> answer]
    /\ UNCHANGED <<pages, transitions, nodes, edges, observed, statVars,
                   vectorVars, builderVars, queryVars>>

\* A retrieve that counts a visit of the current page as it answers.
RetrieveVisiting(app_id, query, current_page_id) ==
    /\ \E context \in retrieve(app_id, query, current_page_id) :
          reply' = [op              |-> "retrieve",
                    query           |-> query,
                    current_page_id |-> current_page_id,
                    context         |-> context]
    /\ pages' = IF current_page_id \in DOMAIN pages
                THEN [pages EXCEPT ![current_page_id].visit_count = @ + 1]
                ELSE pages
    /\ UNCHANGED <<transitions, nodes, edges, observed, statVars,
                   vectorVars, builderVars, queryVars>>

\* RAGEngine.retrieve as a step: it reads the stores and returns a
\* RAGContext.
Retrieve(app_id, query, current_page_id) ==
    /\ \E context \in retrieve(app_id, query, current_page_id) :
          reply' = [op              |-> "retrieve",
                    query           |-> query,
                    current_page_id |-> current_page_id,
                    context         |-> context]
    /\ UNCHANGED <<pages, transitions, nodes, edges, observed, statVars,
                   vectorVars, builderVars, queryVars>>

\* ----------------------------------------- vector_store.py, as operations
\* The ids, vectors and metadata one collection is driven with: two
\* vectors of one direction, one of another, and the zero vector.
IndexIds == {"a", "b", "c"}
IndexVectors == {<<3, 4>>, <<6, 8>>, <<4, 3>>, <<0, 0>>}
IndexMetadata == {[app_id |-> "app"], [app_id |-> "other"]}

\* VectorStoreManager.pages.insert(id, vector, metadata).
IndexInsert(id, vector, metadata) ==
    /\ pageVectors' = insert(pageVectors, id, vector, metadata)
    /\ reply' = [op |-> "insert", id |-> id, vector |-> vector,
                 metadata |-> metadata]
    /\ UNCHANGED <<pages, transitions, nodes, edges, observed, statVars,
                   intents, builderVars, queryVars>>

\* VectorStoreManager.pages.delete(id).
IndexDelete(id) ==
    /\ pageVectors' = delete(pageVectors, id)
    /\ reply' = [op |-> "delete", id |-> id]
    /\ UNCHANGED <<pages, transitions, nodes, edges, observed, statVars,
                   intents, builderVars, queryVars>>

\* VectorStoreManager.pages.clear().
IndexClear ==
    /\ pageVectors' = clear(pageVectors)
    /\ reply' = [op |-> "clear"]
    /\ UNCHANGED <<pages, transitions, nodes, edges, observed, statVars,
                   intents, builderVars, queryVars>>

\* ------------------------------------------------ graph_store.py, export
\* Page.to_dict: the widgets are exported as their number only.
page_to_dict(p) ==
    [page_id      |-> p.page_id,
     page_name    |-> p.page_name,
     app_id       |-> p.app_id,
     state_hash   |-> p.state_hash,
     description  |-> p.description,
     intents      |-> p.intents,
     visit_count  |-> p.visit_count,
     widget_count |-> Len(p.widgets)]

\* MemoryGraphStore.export_to_dict: the dicts of the pages (by page id) and
\* the dicts of the transitions, in the order of the transitions dict.
export_to_dict(P, d) ==
    [pages       |-> [id \in DOMAIN P |-> page_to_dict(P[id])],
     transitions |-> [i \in DOMAIN d |-> to_dict(d[i])]]

\* MemoryGraphStore.export_to_dict as a step: it reads the store and
\* returns the dump.
ExportToDict ==
    /\ reply' = [op |-> "export_to_dict", export |-> export_to_dict(pages, transitions)]
    /\ UNCHANGED <<pages, transitions, nodes, edges, observed, statVars,
                   vectorVars, builderVars, queryVars>>

\* ------------------------------------------- kg_client.py, batch writes
\* update_transition_stats(transition_id, success) called n times.
RECURSIVE UpdateTimes(_, _, _, _)
UpdateTimes(d, tid, success, n) ==
    IF n = 0 THEN d
    ELSE UpdateTimes(update_transition_stats(d, tid, success, 0), tid, success, n - 1)

\* An item is counted as failed, with a message for it, and nothing else
\* happens.
Failed(st, item) ==
    [st EXCEPT !.failed = @ + 1, !.errors = Append(@, item)]

\* if existing: the item goes the update branch when get_transition finds
\* a transition between its pages, whatever the item's action type.
ExistingBranch(existing, item) == existing # None

\* One round of the loop of batch_add_transitions on the store and the
\* counters: an item without from_page or to_page fails; an item whose
\* pages have a transition updates that transition's counters; another
\* item creates its Transition, and fails when ActionType(action_type)
\* raises.
BatchItem(st, item) ==
    LET existing == get_transition(st.transitions, item.from_page, item.to_page)
        created  == Transition(item.from_page, item.to_page, item.action_type,
                               item.success_count, item.fail_count, 0)
    IN  IF item.from_page = NoneId \/ item.to_page = NoneId
        THEN Failed(st, item)
        ELSE IF ExistingBranch(existing, item)
        THEN [st EXCEPT !.transitions =
                            UpdateTimes(UpdateTimes(@, existing.transition_id,
                                                    TRUE, item.success_count),
                                        existing.transition_id, FALSE,
                                        item.fail_count),
                        !.updated = @ + 1]
        ELSE IF item.action_type \notin ActionTypes
        THEN Failed(st, item)
        ELSE [st EXCEPT !.transitions = DictPut(@, created),
                        !.nodes = @ \cup {item.from_page, item.to_page},
                        !.edges = AddEdge(@, created),
                        !.created = @ + 1]

\* The loop of batch_add_transitions over the list.
RECURSIVE BatchLoop(_, _)
BatchLoop(st, items) ==
    IF items = <<>> THEN st
    ELSE BatchLoop(BatchItem(st, Head(items)), Tail(items))

\* KGClient.batch_add_transitions (local mode) on a store: the store after
\* the loop and the counters it has kept.
batch_add_transitions(d, N, E, items) ==
    BatchLoop([transitions |-> d, nodes |-> N, edges |-> E,
               created |-> 0, updated |-> 0, failed |-> 0, errors |-> <<>>],
              items)

\* KGClient.batch_add_transitions as a step, with the dict it returns.
BatchAddTransitions(items) ==
    LET st == batch_add_transitions(transitions, nodes, edges, items)
    IN  /\ transitions' = st.transitions
        /\ nodes' = st.nodes
        /\ edges' = st.edges
        /\ reply' = [op      |-> "batch_add_transitions",
                     items   |-> items,
                     success |-> st.failed = 0,
                     total   |-> Len(items),
                     created |-> st.created,
                     updated |-> st.updated,
                     failed  |-> st.failed,
                     errors  |-> st.errors]
        /\ UNCHANGED <<pages, observed, statVars, vectorVars, builderVars, queryVars>>

\* ------------------------------------------------------ graph_builder.py
\* The apps and the UI hierarchies observed; a hierarchy is given by the
\* text of its title control (every hierarchy here has one).
Apps == {"app", "other"}
UiHierarchies == {[title |-> "home"], [title |-> "list"]}

\* Page.compute_state_hash: md5 of the hierarchy's JSON, modelled as the
\* hierarchy hashed.
compute_state_hash(ui_hierarchy) == ui_hierarchy

\* Page.generate_id: md5 of "app_id:page_name:state_hash", modelled as the
\* tuple hashed.
page_generate_id(app_id, page_name, state_hash) == <<app_id, page_name, state_hash>>

\* GraphBuilder._extract_page_name: the text of the title control.
extract_page_name(ui_hierarchy) == ui_hierarchy.title

\* GraphBuilder._generate_page_description: the texts of the hierarchy
\* behind a fixed prefix.
generate_page_description(ui_hierarchy) ==
    CASE ui_hierarchy.title = "home" -> "contains: home"
      [] ui_hierarchy.title = "list" -> "contains: list"

\* The text GraphBuilder._store_page_embedding embeds: the page name and
\* the description joined by a blank.
combined_text(page) ==
    CASE page.page_name = "home" /\ page.description = "contains: home"
            -> "home contains: home"
      [] page.page_name = "list" /\ page.description = "contains: list"
            -> "list contains: list"
      [] OTHER -> "other"

\* GraphBuilder._extract_widgets: the types, by _infer_widget_type, of the
\* interactive controls of the hierarchy.
extract_widgets(ui_hierarchy) ==
    CASE ui_hierarchy.title = "home" -> <<"button">>
      [] ui_hierarchy.title = "list" -> <<"list", "button">>
      [] OTHER                       -> <<>>

\* dict[key] = value on the hash cache.
CachePut(cache, state_hash, page_id) ==
    [x \in (DOMAIN cache) \cup {state_hash} |->
        IF x = state_hash THEN page_id ELSE cache[x]]

\* The history of what add_page_from_ui returned for (app_id, hierarchy).
Returned(h, app_id, ui_hierarchy, page_id) ==
    [x \in (DOMAIN h) \cup {<<app_id, ui_hierarchy>>} |->
        IF x = <<app_id, ui_hierarchy>> THEN page_id ELSE h[x]]

\* GraphBuilder.add_page_from_ui: a hierarchy whose hash is cached, and
\* whose cached page is stored, counts a visit on that Page and returns
\* it; else a Page is built, stored, cached and embedded.
AddPageFromUi(app_id, ui_hierarchy, page_name) ==
    LET state_hash == compute_state_hash(ui_hierarchy)
        cached     == /\ state_hash \in DOMAIN page_hash_cache
                      /\ get_page(pages, page_hash_cache[state_hash]) # None
        name       == IF page_name # NoneId THEN page_name
                      ELSE extract_page_name(ui_hierarchy)
        page       == [Page(page_generate_id(app_id, name, state_hash), name,
                            app_id, state_hash,
                            generate_page_description(ui_hierarchy))
                          EXCEPT !.widgets = extract_widgets(ui_hierarchy)]
    IN  /\ IF cached
           THEN LET existing_id == page_hash_cache[state_hash]
                IN  /\ pages' = [pages EXCEPT ![existing_id].visit_count = @ + 1]
                    /\ reply' = [op           |-> "add_page_from_ui",
                                 app_id       |-> app_id,
                                 ui_hierarchy |-> ui_hierarchy,
                                 page         |-> pages'[existing_id]]
                    /\ UNCHANGED <<nodes, pageVectors, page_hash_cache>>
           ELSE /\ pages' = PutPage(pages, page)
                /\ nodes' = nodes \cup {page.page_id}
                /\ page_hash_cache' =
                      CachePut(page_hash_cache, state_hash, page.page_id)
                /\ pageVectors' =
                      insert(pageVectors, page.page_id,
                             encode_single(combined_text(page)),
                             [name        |-> page.page_name,
                              description |-> page.description])
                /\ reply' = [op           |-> "add_page_from_ui",
                             app_id       |-> app_id,
                             ui_hierarchy |-> ui_hierarchy,
                             page         |-> page]
        /\ returned' = Returned(returned, app_id, ui_hierarchy, reply'.page.page_id)
        /\ UNCHANGED <<transitions, edges, observed, statVars, intents, queryVars>>

\* ------------------------------------------------------- page_matcher.py
\* The screens match_page is asked about: the ones the builder is fed and
\* one it never stores.
Observations == UiHierarchies \cup {[title |-> "menu"]}

\* The set current_types of _compute_structural_similarity: the types of
\* the nodes _extract_widgets_from_hierarchy collects.
extract_widgets_from_hierarchy(ui_hierarchy) ==
    CASE ui_hierarchy.title = "home" -> {"button"}
      [] ui_hierarchy.title = "list" -> {"list", "button"}
      [] ui_hierarchy.title = "menu" -> {"button"}

\* PageMatcher._hierarchy_to_text: the texts of the hierarchy's nodes.
hierarchy_to_text(ui_hierarchy) == ui_hierarchy.title

\* PageMatcher._compute_structural_similarity: the Jaccard index of the
\* widget types seen and the widget types of the page, 0.0 when either
\* list of widgets is empty.
compute_structural_similarity(ui_hierarchy, page) ==
    LET current_types == extract_widgets_from_hierarchy(ui_hierarchy)
        page_types    == {page.widgets[i] : i \in DOMAIN page.widgets}
    IN  IF current_types = {} \/ page_types = {} THEN <<0, 1>>
        ELSE <<Cardinality(current_types \cap page_types),
               Cardinality(current_types \cup page_types)>>

\* One entry of the candidates list: (page_id, score, match_type).
Candidate(page_id, score, match_type) ==
    [page_id |-> page_id, score |-> score, match_type |-> match_type]

\* PageMatcher._match_by_structure: a page of the application with the
\* hash of the hierarchy scores 1.0, another one its similarity when that
\* is above 0.7.  The pages dict is kept without its order, so the result
\* is the set of the lists the loop can build.
match_by_structure(P, app_id, ui_hierarchy) ==
    LET current_signature == compute_state_hash(ui_hierarchy)
        Score(id) == IF P[id].state_hash = current_signature THEN <<1, 1>>
                     ELSE compute_structural_similarity(ui_hierarchy, P[id])
        Matches(c) == RatLess(<<7, 10>>, c.score)
    IN  {SelectSeq([i \in DOMAIN o |-> Candidate(o[i], Score(o[i]), "structural")],
                   Matches) :
            o \in Orderings(get_all_pages(P, app_id))}

\* PageMatcher._match_by_vector: the results of the pages collection (top
\* 5) that score above 0.6.
match_by_vector(store, query_vector) ==
    LET results == search(store, query_vector, 5)
        Matches(c) == RatLess(<<3, 5>>, c.score)
    IN  SelectSeq([i \in DOMAIN results |->
                      Candidate(results[i].id, results[i].score, "visual")],
                  Matches)

\* sum(scores) of the candidates of a list, as a fraction.
RECURSIVE SumScores(_)
SumScores(cs) ==
    IF cs = <<>> THEN <<0, 1>>
    ELSE LET h == Head(cs).score
             t == SumScores(Tail(cs))
         IN  <<h[1] * t[2] + t[1] * h[2], h[2] * t[2]>>

\* The keys of the merged dict in the order they are first seen.
RECURSIVE FirstSeen(_, _)
FirstSeen(cs, seen) ==
    IF cs = <<>> THEN <<>>
    ELSE IF Head(cs).page_id \in seen THEN FirstSeen(Tail(cs), seen)
    ELSE <<Head(cs).page_id>> \o
         FirstSeen(Tail(cs), seen \cup {Head(cs).page_id})

\* The bonus given whatever the number of strategies naming the id.
BoostAlways(avg_score, types) ==
    IF RatLess(<<1, 1>>, <<avg_score[1] * 11, avg_score[2] * 10>>)
    THEN <<1, 1>> ELSE <<avg_score[1] * 11, avg_score[2] * 10>>

\* min(avg_score * 1.1, 1.0) when more than one strategy names the id.
Boost(avg_score, types) ==
    IF Cardinality(types) > 1
    THEN (IF RatLess(<<1, 1>>, <<avg_score[1] * 11, avg_score[2] * 10>>)
          THEN <<1, 1>> ELSE <<avg_score[1] * 11, avg_score[2] * 10>>)
    ELSE avg_score

\* PageMatcher._merge_candidates: per page id the mean of its scores, with
\* the bonus, sorted by score descending.  primary_type is the max over a
\* set of strings by count, which among equally frequent types depends on
\* the iteration order of the set: types holds the ones it can be.
merge_candidates(candidates) ==
    LET ids == FirstSeen(candidates, {})
        Of(id) == LET Mine(c) == c.page_id = id IN SelectSeq(candidates, Mine)
        Types(id) == {Of(id)[i].match_type : i \in DOMAIN Of(id)}
        Count(id, ty) == Cardinality({i \in DOMAIN Of(id) : Of(id)[i].match_type = ty})
        Avg(id) == <<SumScores(Of(id))[1], SumScores(Of(id))[2] * Len(Of(id))>>
    IN  Sorted([i \in DOMAIN ids |->
                  [page_id |-> ids[i],
                   score   |-> Boost(Avg(ids[i]), Types(ids[i])),
                   types   |-> {ty \in Types(ids[i]) :
                                  \A o \in Types(ids[i]) :
                                     Count(ids[i], o) <= Count(ids[i], ty)}]])

\* PageMatcher._get_available_actions: one entry per outgoing transition of
\* the page, naming the target by its page name when it is stored.
get_available_actions(P, d, page_id) ==
    LET out == get_outgoing_transitions(d, page_id)
    IN  [i \in DOMAIN out |->
            [action       |-> out[i].action_type,
             target       |-> out[i].target_page_id,
             leads_to     |-> IF get_page(P, out[i].target_page_id) # None
                              THEN <<"name", P[out[i].target_page_id].page_name>>
                              ELSE <<"id", out[i].target_page_id>>,
             success_rate |-> success_rate(out[i])]]

\* The candidates list match_page collects: the structural matches when
\* the strategy asks for them and a hierarchy is given, the page with the
\* title, and the vector matches of the screenshot embedding or else of
\* the hierarchy's text.  An absent hierarchy is None, an absent title
\* NoneId, an absent embedding the empty list.
match_candidates(P, store, app_id, ui_hierarchy, screenshot_embedding, page_title, strategy) ==
    LET structural == IF strategy \in {"structural", "hybrid"} /\ ui_hierarchy # None
                      THEN match_by_structure(P, app_id, ui_hierarchy)
                      ELSE {<<>>}
        title      == IF page_title # NoneId /\ PagesNamed(P, page_title, app_id) # {}
                      THEN {<<Candidate(id, <<1, 1>>, "title")>> :
                               id \in PagesNamed(P, page_title, app_id)}
                      ELSE {<<>>}
        visual     == IF strategy \in {"visual", "hybrid"}
                      THEN (IF screenshot_embedding # <<>>
                            THEN match_by_vector(store, screenshot_embedding)
                            ELSE IF ui_hierarchy # None
                            THEN match_by_vector(store,
                                    encode_single(hierarchy_to_text(ui_hierarchy)))
                            ELSE <<>>)
                      ELSE <<>>
    IN  {s \o t \o visual : s \in structural, t \in title}

\* The rest of match_page for a candidates list: None without candidates;
\* else the first of the merged candidates, None when the store has no
\* Page under its id, else the MatchResult with the page's actions.
match_result(P, d, candidates) ==
    IF candidates = <<>> THEN {None}
    ELSE LET best_match == merge_candidates(candidates)[1]
             page       == get_page(P, best_match.page_id)
         IN  IF page = None THEN {None}
             ELSE {[page_id           |-> best_match.page_id,
                    page_name         |-> page.page_name,
                    confidence        |-> best_match.score,
                    match_type        |-> ty,
                    available_actions |->
                        get_available_actions(P, d, best_match.page_id)] :
                      ty \in best_match.types}

\* PageMatcher.match_page: the results it can return.
match_page(P, d, store, app_id, ui_hierarchy, screenshot_embedding, page_title, strategy) ==
    UNION {match_result(P, d, c) :
              c \in match_candidates(P, store, app_id, ui_hierarchy,
                                     screenshot_embedding, page_title, strategy)}

\* MatchResult.to_dict.
match_result_to_dict(result) ==
    [page_id           |-> result.page_id,
     page_name         |-> result.page_name,
     confidence        |-> result.confidence,
     match_type        |-> result.match_type,
     available_actions |-> result.available_actions]

\* The answer for an observation that was not matched.
NotMatched ==
    [matched |-> FALSE, page |-> None, available_actions |-> <<>>,
     candidates |-> <<>>]

\* KGClient.match_current_page (local mode), for the result of
\* PageMatcher.match_page with the hybrid strategy and no embedding: the
\* MatchResult as a dict, or the not-matched answer.
match_current_page(result) ==
    IF result # None THEN match_result_to_dict(result) ELSE NotMatched

\* The /api/v1/query/match-page route, for the client's answer: the answer
\* itself when its "matched" entry is true, else the not-matched answer
\* with the answer's candidates.
route_match_page(result) ==
    IF "matched" \in DOMAIN result /\ result.matched THEN result
    ELSE [matched |-> FALSE, page |-> None, available_actions |-> <<>>,
          candidates |-> IF "candidates" \in DOMAIN result
                         THEN result.candidates ELSE <<>>]

\* MemoryGraphStore.clear: the graph, the pages and the transitions are
\* emptied; the vector collections are another object's.  The mutant
\* leaves out graph.clear().
GraphClearKeepingGraph ==
    /\ pages' = <<>>
    /\ transitions' = <<>>
    /\ observed' = <<>>
    /\ reply' = [op |-> "clear_graph"]
    /\ UNCHANGED <<nodes, edges, statVars, vectorVars, builderVars, queryVars>>

GraphClear ==
    /\ pages' = <<>>
    /\ transitions' = <<>>
    /\ nodes' = {}
    /\ edges' = <<>>
    /\ observed' = <<>>
    /\ reply' = [op |-> "clear_graph"]
    /\ UNCHANGED <<statVars, vectorVars, builderVars, queryVars>>

\* One more (page_id, score, match_type) entry is collected and the list is
\* merged: candidates.append / candidates.extend, then _merge_candidates.
MergeCandidates(page_id, score, match_type) ==
    /\ collected' = Append(collected, Candidate(page_id, score, match_type))
    /\ reply' = [op |-> "merge_candidates", merged |-> merge_candidates(collected')]
    /\ UNCHANGED <<pages, transitions, nodes, edges, observed, statVars,
                   vectorVars, builderVars, agent>>

\* ------------------------------------------------------ queries as steps
\* RAGEngine.generate_action_guidance: the current page is the matched one
\* when the observation matches; the guidance carries retrieve's
\* confidence, the first of the most confident suggestions and the first
\* path.
generate_action_guidance(app_id, intent, current_page_id, current_ui) ==
    LET matches == IF current_ui # None
                   THEN match_page(pages, transitions, pageVectors, app_id,
                                   current_ui, <<>>, NoneId, "hybrid")
                   ELSE {None}
        Current(match_result_) == IF match_result_ # None THEN match_result_.page_id
                                  ELSE current_page_id
        Best(suggested) ==
            suggested[CHOOSE i \in DOMAIN suggested :
                         /\ \A j \in DOMAIN suggested :
                               ~RatLess(suggested[i].confidence, suggested[j].confidence)
                         /\ \A j \in 1..(i - 1) :
                               RatLess(suggested[j].confidence, suggested[i].confidence)]
        Guidance(current, context) ==
            [intent       |-> intent,
             current_page |-> current,
             confidence   |-> context.confidence,
             next_action  |-> IF context.suggested_actions # <<>>
                              THEN Best(context.suggested_actions) ELSE None,
             full_path    |-> IF context.retrieved_paths # <<>>
                              THEN context.retrieved_paths[1] ELSE None]
    IN  UNION {{Guidance(Current(m), context) :
                   context \in retrieve(app_id, intent, Current(m))} :
               m \in matches}

\* PathFinder.find_path_by_intent as a step: it reads the stores and
\* returns a QueryResult.
FindPathByIntent(app_id, intent, current_page_id, max_steps) ==
    /\ \E result \in find_path_by_intent(app_id, intent, current_page_id, max_steps) :
          reply' = [op              |-> "find_path_by_intent",
                    intent          |-> intent,
                    current_page_id |-> current_page_id,
                    max_steps       |-> max_steps,
                    result          |-> result]
    /\ UNCHANGED <<pages, transitions, nodes, edges, observed, statVars,
                   vectorVars, builderVars, queryVars>>

\* PathFinder.get_next_action as a step: find_path_by_intent with no app
\* and the default max_steps, and the first step of its path or None.
GetNextAction(current_page_id, target_intent) ==
    /\ \E result \in find_path_by_intent("", target_intent, current_page_id,
                                         DefaultMaxSteps) :
          reply' = [op              |-> "get_next_action",
                    intent          |-> target_intent,
                    current_page_id |-> current_page_id,
                    answer          |-> next_action(result)]
    /\ UNCHANGED <<pages, transitions, nodes, edges, observed, statVars,
                   vectorVars, builderVars, queryVars>>

\* PageMatcher.match_page (hybrid, no embedding) as a step: it reads the
\* stores and returns a MatchResult or None.
MatchPage(app_id, ui_hierarchy, page_title) ==
    /\ \E result \in match_page(pages, transitions, pageVectors, app_id,
                                 ui_hierarchy, <<>>, page_title, "hybrid") :
          reply' = [op           |-> "match_page",
                    ui_hierarchy |-> ui_hierarchy,
                    page_title   |-> page_title,
                    result       |-> result]
    /\ UNCHANGED <<pages, transitions, nodes, edges, observed, statVars,
                   vectorVars, builderVars, queryVars>>

\* RAGEngine.generate_action_guidance as a step.
GenerateActionGuidance(app_id, intent, current_page_id, current_ui) ==
    /\ \E guidance \in generate_action_guidance(app_id, intent, current_page_id,
                                                 current_ui) :
          reply' = [op              |-> "generate_action_guidance",
                    intent          |-> intent,
                    current_page_id |-> current_page_id,
                    current_ui      |-> current_ui,
                    guidance        |-> guidance]
    /\ UNCHANGED <<pages, transitions, nodes, edges, observed, statVars,
                   vectorVars, builderVars, queryVars>>

\* ------------------------------------------------- demo_with_agent.py
\* MockGUIAgent.set_current_page: the agent is put on a page.
SetCurrentPage(page_id) ==
    /\ agent' = [current_page |-> page_id, step_num |-> 0]
    /\ reply' = [op |-> "set_current_page"]
    /\ UNCHANGED <<pages, transitions, nodes, edges, observed, statVars,
                   vectorVars, builderVars, collected>>

\* One round of the loop of execute_with_realtime_guidance, run with
\* max_steps = MaxRounds: the agent asks
\* KGClient.get_next_action for its page and the intent, the
\* ActionRecommendation it gets is an object and so never false, the action
\* succeeds, and the agent goes to the recommendation's expected_page.
GuidanceRound(intent) ==
    /\ agent # None
    /\ agent.step_num < MaxRounds
    /\ \E result \in find_path_by_intent("", intent, agent.current_page,
                                         DefaultMaxSteps) :
          LET next_action_ == recommendation(next_action(result))
          IN  /\ agent' = [current_page |-> next_action_.expected_page,
                           step_num     |-> agent.step_num + 1]
              /\ reply' = [op           |-> "guidance_round",
                           intent       |-> intent,
                           current_page |-> agent.current_page,
                           next_action  |-> next_action_]
    /\ UNCHANGED <<pages, transitions, nodes, edges, observed, statVars,
                   vectorVars, builderVars, collected>>

\* ---------------------------------------------------------- bound guards
\* A new key may enter the transitions dict while it holds fewer than n.
RoomFor(tid, n) == HasKey(transitions, tid) \/ Len(transitions) < n

\* The observations counted by all stored Transitions together.
RECURSIVE TotalCount(_)
TotalCount(d) ==
    IF d = <<>> THEN 0
    ELSE d[1].success_count + d[1].fail_count + TotalCount(Tail(d))

\* The store has counted fewer than MaxCount observations.
BelowMaxCount == TotalCount(transitions) < MaxCount

\* A report for the page pair updates a transition, or creates one and
\* there is room for it.
ReportInBounds(from_page, action, to_page) ==
    /\ BelowMaxCount
    /\ \/ get_transition(transitions, from_page, to_page) # None
       \/ RoomFor(generate_id(from_page, to_page, action), MaxTransitions)

\* ------------------------------------------------ the learning store
Next ==
    \/ \E p \in LearnPages : AddPage(DefaultPage(p))
    \/ \E e \in LearnPairs, a \in ActionTypes :
          /\ RoomFor(generate_id(e[1], e[2], a), MaxTransitions)
          /\ AddTransition(e[1], e[2], a)
    \/ \E e \in LearnPairs, a \in ActionTypes :
          /\ RoomFor(generate_id(e[1], e[2], a), MaxTransitions)
          /\ AddTransitionFromAction(e[1], e[2], a)
    \/ \E e \in LearnPairs, a \in ActionTypes, ok \in BOOLEAN :
          /\ BelowMaxCount
          /\ UpdateTransitionStats(generate_id(e[1], e[2], a), ok, 0)
    \/ \E e \in LearnPairs, a \in ActionTypes, ok \in BOOLEAN :
          /\ ReportInBounds(e[1], a, e[2])
          /\ ReportTransition(e[1], a, e[2], ok, 0)

Spec == Init /\ [][Next]_vars

\* ------------------------------------------------ the graph's topology
NextPaths ==
    \/ \E p \in PageIds : AddPage(DefaultPage(p))
    \/ \E s \in PageIds, t \in PageIds :
          /\ RoomFor(generate_id(s, t, "click"), MaxEdges)
          /\ AddTransition(s, t, "click")

SpecPaths == Init /\ [][NextPaths]_vars

\* ------------------------------------------- the graph's bounded closure
NextReach ==
    \/ \E p \in PageIds : AddPage(DefaultPage(p))
    \/ \E s \in PageIds, t \in PageIds :
          /\ RoomFor(generate_id(s, t, "click"), MaxReachEdges)
          /\ AddTransition(s, t, "click")

SpecReach == Init /\ [][NextReach]_vars

\* ------------------------------------------------------ the page store
\* The Pages handed to add_page directly: under the ids the builder derives
\* for the "home" hierarchy, with one description or another.
PageInputs ==
    {Page(page_generate_id(a, "home", [title |-> "home"]), "home", a,
          [title |-> "home"], description) :
        a \in Apps, description \in {"", "menu"}}

\* The cached page of the hierarchy has been visited fewer than MaxVisits
\* times.
BelowMaxVisits(ui_hierarchy) ==
    LET state_hash == compute_state_hash(ui_hierarchy)
    IN  (/\ state_hash \in DOMAIN page_hash_cache
         /\ page_hash_cache[state_hash] \in DOMAIN pages)
        => pages[page_hash_cache[state_hash]].visit_count < MaxVisits

NextPages ==
    \/ \E page \in PageInputs : AddPage(page)
    \/ \E a \in Apps, ui \in UiHierarchies :
          /\ BelowMaxVisits(ui)
          /\ AddPageFromUi(a, ui, NoneId)

SpecPages == Init /\ [][NextPages]_vars

\* The collection holds at most MaxEntries ids.
RoomForEntry(id) ==
    id \in VectorIds(pageVectors) \/ count(pageVectors) < MaxEntries

\* One vector collection under inserts, deletes and clears.
NextIndex ==
    \/ \E id \in IndexIds, v \in IndexVectors, m \in IndexMetadata :
          /\ RoomForEntry(id)
          /\ IndexInsert(id, v, m)
    \/ \E id \in IndexIds : IndexDelete(id)
    \/ IndexClear

SpecIndex == Init /\ [][NextIndex]_vars

\* No page is stored for the hierarchy: add_page_from_ui will build one.
NotStored(ui_hierarchy) ==
    LET state_hash == compute_state_hash(ui_hierarchy)
    IN  ~(/\ state_hash \in DOMAIN page_hash_cache
          /\ page_hash_cache[state_hash] \in DOMAIN pages)

\* The builder stores screens of two applications, each screen while no
\* page is stored for it, transitions are added between stored pages, and
\* the graph store is cleared.
NextMatch ==
    \/ \E a \in Apps, ui \in UiHierarchies :
          /\ NotStored(ui)
          /\ AddPageFromUi(a, ui, NoneId)
    \/ \E s \in DOMAIN pages, t \in DOMAIN pages, a \in ActionTypes :
          /\ s # t
          /\ RoomFor(generate_id(s, t, a), MaxTransitions)
          /\ AddTransition(s, t, a)
    \/ GraphClear

SpecMatch == Init /\ [][NextMatch]_vars

\* The scores and strategy labels of the candidates that are merged.
CandidateScores == {<<4, 5>>, <<1, 1>>}
MatchTypes == {"structural", "title", "visual"}

\* Candidates lists of up to MaxCandidates entries, merged as they grow.
NextMerge ==
    \E page_id \in LearnPages, score \in CandidateScores, match_type \in MatchTypes :
        /\ Len(collected) < MaxCandidates
        /\ MergeCandidates(page_id, score, match_type)

SpecMerge == Init /\ [][NextMerge]_vars

\* The items batches are made of: with and without from_page, with valid
\* and invalid action types, with and without a success to count.
BatchItems ==
    [from_page : {"home", NoneId}, to_page : {"list"},
     action_type : {"click", "swipe", "fly"},
     success_count : {0, 1}, fail_count : {0}]

\* The lists of up to MaxBatch items.
BatchInputs == UNION {[1..n -> BatchItems] : n \in 0..MaxBatch}

\* Batches are added while no counter exceeds MaxCount.
NextBatch ==
    \E items \in BatchInputs :
        /\ BatchAddTransitions(items)
        /\ \A i \in DOMAIN transitions' : transitions'[i].success_count <= MaxCount

SpecBatch == Init /\ [][NextBatch]_vars

\* --------------------------------------------------- the exported store
NextExport ==
    \/ \E p \in LearnPages : AddPage(DefaultPage(p))
    \/ \E e \in LearnPairs, a \in ActionTypes :
          /\ RoomFor(generate_id(e[1], e[2], a), MaxTransitions)
          /\ AddTransition(e[1], e[2], a)
    \/ \E e \in LearnPairs, a \in ActionTypes, ok \in BOOLEAN, l \in Latencies :
          /\ BelowMaxCount
          /\ UpdateTransitionStats(generate_id(e[1], e[2], a), ok, l)
    \/ ExportToDict

SpecExport == Init /\ [][NextExport]_vars

\* ------------------------------------------- the statistics of one object
\* update_transition_stats on the Transition of run A, the report recorded.
ReportA(success, latency_ms) ==
    /\ runA' = [t       |-> UpdatedStats(runA.t, success, latency_ms),
                reports |-> Append(runA.reports, <<success, latency_ms>>)]
    /\ UNCHANGED <<graphVars, runB, vectorVars, builderVars, queryVars>>

\* update_transition_stats on the Transition of run B, the report recorded.
ReportB(success, latency_ms) ==
    /\ runB' = [t       |-> UpdatedStats(runB.t, success, latency_ms),
                reports |-> Append(runB.reports, <<success, latency_ms>>)]
    /\ UNCHANGED <<graphVars, runA, vectorVars, builderVars, queryVars>>

NextStats ==
    \/ \E ok \in BOOLEAN, l \in Latencies :
          Len(runA.reports) < MaxReports /\ ReportA(ok, l)
    \/ \E ok \in BOOLEAN, l \in Latencies :
          Len(runB.reports) < MaxReports /\ ReportB(ok, l)

SpecStats == Init /\ [][NextStats]_vars

\* ------------------------------------------------------ the query layer
\* The pages the client adds, each with its description ("" for none), the
\* traversals the builder records, the intent texts registered and the
\* target pages they name.
PageDescriptions == {<<"home", "">>, <<"list", "menu">>, <<"detail", "order food">>}
QueryEdges == {<<"home", "list">>, <<"list", "detail">>, <<"home", "detail">>}
IntentTexts == {"order food", "pay"}
IntentTargets == {"list", "detail", NoneId}

NextQuery ==
    \/ \E pd \in PageDescriptions : ClientAddPage(pd[1], pd[2])
    \/ \E text \in IntentTexts, target \in IntentTargets :
          RegisterIntent(text, target)
    \/ \E e \in QueryEdges : AddTransitionFromAction(e[1], e[2], "click")

SpecQuery == Init /\ [][NextQuery]_vars

\* ------------------------------------------------- the retrieval engine
\* The queries retrieve is asked, and the pages it is asked from (or none).
RagQueries == {"order food", "menu"}
RagCurrentPages == {"home", "list", NoneId}

NextRag ==
    \/ \E pd \in PageDescriptions : ClientAddPage(pd[1], pd[2])
    \/ RegisterIntent("order food", "detail")
    \/ \E e \in QueryEdges :
          /\ RoomFor(generate_id(e[1], e[2], "click"), MaxTransitions)
          /\ AddTransitionFromAction(e[1], e[2], "click")
    \/ \E e \in QueryEdges, ok \in BOOLEAN :
          /\ BelowMaxCount
          /\ UpdateTransitionStats(generate_id(e[1], e[2], "click"), ok, 0)
    \/ \E query \in RagQueries, current_page_id \in RagCurrentPages :
          Retrieve(AppId, query, current_page_id)

SpecRag == Init /\ [][NextRag]_vars

\* ------------------------------------------------ writes between queries
\* What the queries are asked: the intent, the page the agent is on (or
\* none), and an observed screen (or none).
AskedIntents == {"order food"}
AskedPages == {"home", NoneId}
AskedScreens == {[title |-> "menu"], None}

NextReadOnly ==
    \/ \E pd \in PageDescriptions : ClientAddPage(pd[1], pd[2])
    \/ \E target \in {"detail", NoneId} : RegisterIntent("order food", target)
    \/ \E e \in QueryEdges :
          /\ RoomFor(generate_id(e[1], e[2], "click"), MaxTransitions)
          /\ AddTransitionFromAction(e[1], e[2], "click")
    \/ \E intent \in AskedIntents, current_page_id \in AskedPages :
          FindPathByIntent(AppId, intent, current_page_id, DefaultMaxSteps)
    \/ \E intent \in AskedIntents, current_page_id \in AskedPages \ {NoneId} :
          GetNextAction(current_page_id, intent)
    \/ \E current_page_id \in AskedPages \ {NoneId} :
          GetReachableIntents(current_page_id)
    \/ \E ui \in AskedScreens, page_title \in {"list", NoneId} :
          MatchPage(AppId, ui, page_title)
    \/ \E intent \in AskedIntents, current_page_id \in AskedPages :
          Retrieve(AppId, intent, current_page_id)
    \/ \E intent \in AskedIntents, current_page_id \in AskedPages, ui \in AskedScreens :
          GenerateActionGuidance(AppId, intent, current_page_id, ui)

SpecReadOnly == Init /\ [][NextReadOnly]_vars

\* ------------------------------------------------ paths of bounded length
\* The values of max_steps a path query is made with.
AskedMaxSteps == {1, 2, DefaultMaxSteps}

NextSteps ==
    \/ \E pd \in PageDescriptions : ClientAddPage(pd[1], pd[2])
    \/ RegisterIntent("order food", "detail")
    \/ \E e \in QueryEdges :
          /\ RoomFor(generate_id(e[1], e[2], "click"), MaxEdges)
          /\ AddTransitionFromAction(e[1], e[2], "click")
    \/ \E current_page_id \in AskedPages, max_steps \in AskedMaxSteps :
          FindPathByIntent(AppId, "order food", current_page_id, max_steps)

SpecSteps == Init /\ [][NextSteps]_vars

\* --------------------------------------------------- the guided agent
\* The stores are filled before the agent is put on a page; from then on
\* only the agent moves.
NextGuided ==
    \/ agent = None /\ \E pd \in PageDescriptions : ClientAddPage(pd[1], pd[2])
    \/ agent = None /\ RegisterIntent("order food", "detail")
    \/ \E e \in QueryEdges :
          /\ agent = None
          /\ RoomFor(generate_id(e[1], e[2], "click"), MaxTransitions)
          /\ AddTransitionFromAction(e[1], e[2], "click")
    \/ agent = None /\ \E page_id \in PageIds : SetCurrentPage(page_id)
    \/ GuidanceRound("order food")

\* The loop of execute_with_realtime_guidance advances: after one more
\* round the agent is on the page it was sent to.  Every GuidanceRound step
\* is one, and one is possible exactly when a GuidanceRound is, since
\* get_next_action always answers.
RoundTaken ==
    /\ agent # None
    /\ agent.step_num < MaxRounds
    /\ \E page_id \in PageIds \cup {""} :
          agent' = [current_page |-> page_id, step_num |-> agent.step_num + 1]

\* The for loop runs its rounds one after the other until it returns.
SpecGuided == Init /\ [][NextGuided]_vars /\ WF_agent(RoundTaken)

\* --------------------------------------------------- a long way to go
\* Seven pages in a row, each leading to the next, explored from the first
\* on; the first two and the last are stored with intents.
ChainPages == <<"p0", "p1", "p2", "p3", "p4", "p5", "p6">>
ChainIntents ==
    {[page_id |-> "p0", intents |-> <<"browse">>],
     [page_id |-> "p1", intents |-> <<"browse", "search">>],
     [page_id |-> "p6", intents |-> <<"pay">>]}

NextChain ==
    \/ \E c \in ChainIntents :
          AddPage([DefaultPage(c.page_id) EXCEPT !.intents = c.intents])
    \/ \E i \in 1..(Len(ChainPages) - 1) :
          /\ i = Len(transitions) + 1
          /\ AddTransition(ChainPages[i], ChainPages[i + 1], "click")
    \/ \E current_page_id \in {"p0", "p1"} : GetReachableIntents(current_page_id)

SpecChain == Init /\ [][NextChain]_vars

\* ------------------------------------------------------------- claims
\* A walk along the edges: every consecutive pair is an edge.
IsWalk(E, path) == \A i \in 1..(Len(path) - 1) : <<path[i], path[i + 1]>> \in DOMAIN E

\* The walks from a to b that visit at most as many nodes as the graph has
\* (every shortest walk is among them).
WalksFromTo(N, E, a, b) ==
    {path \in UNION {[1..n -> N] : n \in 1..Cardinality(N)} :
        /\ path[1] = a
        /\ path[Len(path)] = b
        /\ IsWalk(E, path)}

\* C3: find_shortest_path(a, b) answers None exactly when no walk along the
\* edges leads from a to b in the graph; a path it answers starts with a,
\* ends with b, follows edges each of which belongs to a stored transition,
\* has total_steps = len(pages) - 1 = the number of hop payloads, and no
\* walk from a to b has fewer hops; for a stored page a the answer for
\* (a, a) is the zero-length path [a].
ShortestPathCorrect ==
    \A a \in PageIds, b \in PageIds :
        \A r \in find_shortest_path(nodes, edges, a, b) :
            LET W == WalksFromTo(nodes, edges, a, b)
            IN  /\ (r = None) <=> (W = {})
                /\ r # None =>
                      /\ r.pages \in W
                      /\ r.total_steps = Len(r.pages) - 1
                      /\ r.total_steps = Len(r.transitions)
                      /\ \A w \in W : Len(w) >= Len(r.pages)
                      /\ \A i \in 1..(Len(r.pages) - 1) :
                            \E j \in DOMAIN transitions :
                               /\ transitions[j].source_page_id = r.pages[i]
                               /\ transitions[j].target_page_id = r.pages[i + 1]
                /\ (a = b /\ a \in DOMAIN pages) => (r # None /\ r.pages = <<a>>)

\* C3 witness: a two-hop shortest path beside a longer detour's absence of
\* a direct edge, and an unreachable pair of stored pages.
ShortestPathWitness ==
    /\ {"home", "list", "detail"} \subseteq DOMAIN pages
    /\ \E r \in find_shortest_path(nodes, edges, "home", "detail") :
          r # None /\ r.total_steps = 2
    /\ find_shortest_path(nodes, edges, "detail", "home") = {None}
    /\ find_shortest_path(nodes, edges, "list", "list") = {PathResult(edges, <<"list">>)}

\* C4 (as claimed): whenever start or end is not a stored Page, the answer
\* is None.
AbsentEndpointNoPath ==
    \A a \in PageIds, b \in PageIds :
        (a \notin DOMAIN pages \/ b \notin DOMAIN pages) =>
            find_shortest_path(nodes, edges, a, b) = {None}

\* C1: every stored Transition carries exactly the observations made of it:
\* success_count is the number of successes, fail_count the number of
\* failures, success_rate is k / (k + m) (0.0 when there are none); a report
\* answers with the statistics of the transition it names, and a first
\* report for a page pair answers with exactly one observation.
StatsMatchObservations ==
    /\ \A i \in DOMAIN transitions :
          LET t == transitions[i]
              o == observed[t.transition_id]
          IN  /\ t.success_count = o.k
              /\ t.fail_count = o.m
              /\ RatEq(success_rate(t),
                       IF o.k + o.m = 0 THEN <<0, 1>> ELSE <<o.k, o.k + o.m>>)
    /\ reply.op = "report_transition" =>
          LET o == observed[reply.transition_id]
          IN  /\ reply.stats.success_count = o.k
              /\ reply.stats.fail_count = o.m
              /\ RatEq(reply.stats.success_rate,
                       IF o.k + o.m = 0 THEN <<0, 1>> ELSE <<o.k, o.k + o.m>>)
              /\ ~reply.updated => o.k + o.m = 1

\* C1 witness: a failed report that follows one success: success_rate 0.5.
StatsWitness ==
    /\ reply.op = "report_transition"
    /\ reply.updated
    /\ ~reply.reported
    /\ reply.stats.success_count = 1
    /\ reply.stats.fail_count = 1
    /\ RatEq(reply.stats.success_rate, <<1, 2>>)

\* The sum of the latencies of a sequence of reports.
RECURSIVE SumLatency(_)
SumLatency(reports) ==
    IF reports = <<>> THEN 0
    ELSE reports[1][2] + SumLatency(Tail(reports))

\* Two sequences of reports hold the same reports, each as often.
SameReports(ra, rb) ==
    \A x \in BOOLEAN \X Latencies :
        Cardinality({i \in DOMAIN ra : ra[i] = x}) =
        Cardinality({i \in DOMAIN rb : rb[i] = x})

\* C2 (as claimed): avg_latency_ms is the arithmetic mean of the latencies
\* reported so far, and two runs that reported the same multiset of
\* (success, latency_ms) hold the same avg_latency_ms.
AvgLatencyIsMean ==
    /\ \A run \in {runA, runB} :
          Len(run.reports) > 0 =>
             run.t.avg_latency_ms * Len(run.reports) = SumLatency(run.reports)
    /\ SameReports(runA.reports, runB.reports) =>
          runA.t.avg_latency_ms = runB.t.avg_latency_ms

\* C5 (as claimed): across add_transition_from_action, report_transition and
\* update_transition_stats a stored Transition stays stored and neither of
\* its counts decreases.
CountsNeverDecrease ==
    [][reply'.op \in {"add_transition_from_action", "report_transition",
                      "update_transition_stats"} =>
          \A i \in DOMAIN transitions :
             /\ HasKey(transitions', transitions[i].transition_id)
             /\ DictGet(transitions', transitions[i].transition_id).success_count
                   >= transitions[i].success_count
             /\ DictGet(transitions', transitions[i].transition_id).fail_count
                   >= transitions[i].fail_count]_vars

\* C6 (as claimed): a report for a (source, target, action kind) triple that
\* has no Transition creates the Transition generate_id names and answers
\* updated = false, and a report changes no Transition but the one of its
\* triple.
ReportTouchesOwnTriple ==
    [][reply'.op = "report_transition" =>
          LET tid == generate_id(reply'.from_page, reply'.to_page, reply'.action)
          IN  /\ ~HasKey(transitions, tid) =>
                    /\ HasKey(transitions', tid)
                    /\ reply'.transition_id = tid
                    /\ ~reply'.updated
              /\ \A i \in DOMAIN transitions :
                    transitions[i].transition_id # tid =>
                       transitions'[i] = transitions[i]]_vars

\* C7 (as claimed): every hop payload of a shortest path carries the
\* success_count and success_rate of the Transition stored under its id.
PathPayloadIsCurrent ==
    \A a \in PageIds, b \in PageIds :
        \A r \in find_shortest_path(nodes, edges, a, b) :
            r # None =>
               \A i \in DOMAIN r.transitions :
                  LET hop == r.transitions[i]
                  IN  /\ HasKey(transitions, hop.transition_id)
                      /\ hop.success_count =
                            DictGet(transitions, hop.transition_id).success_count
                      /\ RatEq(hop.success_rate,
                               success_rate(DictGet(transitions, hop.transition_id)))
\* C8 (as claimed): whenever the path find_path_by_intent resolves has
\* n >= 1 steps, the next-action reply carries a non-null action that is
\* step 1 of the path, and remaining_steps = n - 1.
NextActionIsFirstStep ==
    \A cur \in PageIds, q \in Texts :
        \A r \in find_path_by_intent("", q, cur, DefaultMaxSteps) :
            (r.success /\ total_steps(r.path) >= 1) =>
                LET answer == get_next_action(r)
                IN  /\ answer.action # None
                    /\ answer.action.action_type = r.path.steps[1].action_type
                    /\ answer.action.expected_page = r.path.steps[1].expected_page_id
                    /\ answer.remaining_steps = total_steps(r.path) - 1

\* C9 (as claimed): the next-action reply reports completion (is_complete,
\* no action, remaining_steps = 0) exactly when the resolved path has zero
\* steps; a query that resolves no target page or finds the target
\* unreachable does not report completion.
CompleteOnlyAtTarget ==
    \A cur \in PageIds, q \in Texts :
        \A r \in find_path_by_intent("", q, cur, DefaultMaxSteps) :
            LET answer == get_next_action(r)
            IN  /\ answer.is_complete <=> (r.success /\ total_steps(r.path) = 0)
                /\ answer.is_complete =>
                      (answer.action = None /\ answer.remaining_steps = 0)

\* The cosine of the angle between the embeddings of two texts.
Cosine(a, b) ==
    <<IntDot(encode_single(a), encode_single(b)),
      Norm(encode_single(a)) * Norm(encode_single(b))>>

\* The entry of a collection that matches the query text best: none has a
\* higher cosine, and the ones inserted before it have a lower one.  The
\* text of an entry is read from its metadata by TextOf.
IsBest(store, i, q, TextOf(_)) ==
    /\ \A j \in DOMAIN store :
          ~RatLess(Cosine(q, TextOf(store[i])), Cosine(q, TextOf(store[j])))
    /\ \A j \in 1..(i - 1) :
          RatLess(Cosine(q, TextOf(store[j])), Cosine(q, TextOf(store[i])))

\* The entries of a collection in insertion order, each with the metadata
\* held under its id.
Entries(store) ==
    [i \in DOMAIN store.vectors |->
        [id       |-> store.vectors[i].id,
         vector   |-> store.vectors[i].vector,
         metadata |-> MetadataGet(store, store.vectors[i].id)]]

IntentText(entry) == entry.metadata.text
PageText(entry) == entry.metadata.description

\* C10: with a current page supplied, find_path_by_intent takes target and
\* confidence from the best intent match when that names a target page,
\* else from the best match of the pages collection; when neither resolves
\* it answers success = false, no path, confidence 0; it succeeds exactly
\* when the resolved target is reachable, and then its path is a shortest
\* path from the current page to the target turned into steps, and the
\* result's and the path's confidence are the resolved score.
TargetResolution ==
    \A cur \in PageIds, q \in Texts :
        \A r \in find_path_by_intent(AppId, q, cur, DefaultMaxSteps) :
            LET I  == Entries(intents)
                V  == Entries(pageVectors)
                bi == CHOOSE i \in DOMAIN I : IsBest(I, i, q, IntentText)
                bp == CHOOSE i \in DOMAIN V : IsBest(V, i, q, PageText)
                byIntent == /\ I # <<>>
                            /\ I[bi].metadata.target_page_id # NoneId
                byPage   == ~byIntent /\ V # <<>>
                target   == IF byIntent THEN I[bi].metadata.target_page_id
                            ELSE V[bp].id
                score    == IF byIntent THEN Cosine(q, IntentText(I[bi]))
                            ELSE Cosine(q, PageText(V[bp]))
                W        == WalksFromTo(nodes, edges, cur, target)
            IN  /\ (~byIntent /\ ~byPage) =>
                      /\ ~r.success
                      /\ r.path = None
                      /\ RatEq(r.confidence, <<0, 1>>)
                /\ (byIntent \/ byPage) =>
                      /\ r.success <=> (W # {})
                      /\ r.success =>
                            /\ r.path.start_page_id = cur
                            /\ r.path.end_page_id = target
                            /\ RatEq(r.confidence, score)
                            /\ RatEq(r.path.confidence, score)
                            /\ \E p \in find_shortest_path(nodes, edges, cur, target) :
                                  /\ p # None
                                  /\ \A w \in W : Len(w) >= Len(p.pages)
                                  /\ total_steps(r.path) = p.total_steps
                                  /\ \A i \in DOMAIN r.path.steps :
                                        /\ r.path.steps[i].step_index = i
                                        /\ r.path.steps[i].expected_page_id = p.pages[i + 1]
                                        /\ r.path.steps[i].action_type =
                                              edges[<<p.pages[i], p.pages[i + 1]>>].action_type

\* C10 witness: two intents and a described page; "order food" resolves
\* through its intent to a page two steps away with confidence 1, "pay"
\* falls back from a target-less intent to the best page with that page's
\* score 24/25, and from the page "detail" that target is unreachable.
TargetResolutionWitness ==
    /\ Len(intents.vectors) = 2
    /\ Len(pageVectors.vectors) = 1
    /\ \E r \in find_path_by_intent(AppId, "order food", "home", DefaultMaxSteps) :
          /\ r.success
          /\ total_steps(r.path) = 2
          /\ r.path.end_page_id = "detail"
          /\ RatEq(r.confidence, <<1, 1>>)
    /\ \E r \in find_path_by_intent(AppId, "pay", "home", DefaultMaxSteps) :
          /\ r.success
          /\ r.path.end_page_id = "list"
          /\ RatEq(r.confidence, <<24, 25>>)
    /\ \E r \in find_path_by_intent(AppId, "pay", "detail", DefaultMaxSteps) :
          ~r.success

\* The page sequence an ActionPath walks: its start page, then the page
\* every step expects.
PagesOf(path) ==
    <<path.start_page_id>> \o
    [i \in DOMAIN path.steps |-> path.steps[i].expected_page_id]

\* C11 (as claimed): a successful find_path_by_intent answers at most two
\* alternatives; each is a simple path along the edges from the current
\* page to the target page of at most max_steps hops, its page sequence is
\* not the primary path's, and its confidence is 0.8 times the primary's.
AlternativesDifferFromPrimary ==
    \A cur \in PageIds, q \in Texts :
        \A r \in find_path_by_intent(AppId, q, cur, DefaultMaxSteps) :
            r.success =>
                /\ Len(r.alternatives) <= 2
                /\ \A i \in DOMAIN r.alternatives :
                      LET alt == r.alternatives[i]
                          pg  == PagesOf(alt)
                      IN  /\ pg[1] = cur
                          /\ pg[Len(pg)] = r.path.end_page_id
                          /\ IsWalk(edges, pg)
                          /\ \A j \in DOMAIN pg, k \in DOMAIN pg :
                                pg[j] = pg[k] => j = k
                          /\ Len(pg) - 1 <= DefaultMaxSteps
                          /\ pg # PagesOf(r.path)
                          /\ RatEq(alt.confidence,
                                   <<4 * r.confidence[1], 5 * r.confidence[2]>>)

\* The simple paths along the edges from a to b of at most m hops.
SimplePathsWithin(N, E, a, b, m) ==
    {w \in WalksFromTo(N, E, a, b) :
        /\ Len(w) - 1 <= m
        /\ \A i \in DOMAIN w, j \in DOMAIN w : w[i] = w[j] => i = j}

\* The values of max_length and max_depth queried.
Lengths == {0, 1, 2, 10}
Depths == {0, 1, 2}

\* C12 (as claimed): find_all_paths(start, end, max_length) answers at most
\* five simple paths of at most max_length hops in non-decreasing order of
\* hop count, and no simple path it leaves out is shorter than one it
\* answers.
AllPathsShortestFirst ==
    \A a \in PageIds, b \in PageIds, m \in Lengths :
        \A res \in find_all_paths(nodes, edges, transitions, a, b, m) :
            /\ Len(res) <= 5
            /\ \A i \in DOMAIN res :
                  /\ res[i].pages \in SimplePathsWithin(nodes, edges, a, b, m)
                  /\ res[i].total_steps = Len(res[i].pages) - 1
            /\ \A i \in DOMAIN res, j \in DOMAIN res :
                  i < j => res[i].total_steps <= res[j].total_steps
            /\ \A w \in SimplePathsWithin(nodes, edges, a, b, m) :
                  (\A i \in DOMAIN res : res[i].pages # w) =>
                     \A i \in DOMAIN res : res[i].total_steps <= Len(w) - 1

\* The page ids at most m hops from start, start itself among them.
WithinHops(N, E, start, m) ==
    {start} \cup
    {b \in N : \E w \in WalksFromTo(N, E, start, b) : Len(w) - 1 <= m}

\* C13: get_reachable_pages(start, max_depth) with max_depth >= 0 answers
\* exactly the page ids whose hop distance from start is at most max_depth,
\* start among them also when it has no outgoing edge or is no node, and no
\* id twice.
ReachableWithinDepth ==
    \A start \in PageIds, m \in Depths :
        \A res \in get_reachable_pages(nodes, transitions, start, m) :
            /\ {res[i] : i \in DOMAIN res} = WithinHops(nodes, edges, start, m)
            /\ \A i \in DOMAIN res, j \in DOMAIN res : res[i] = res[j] => i = j

\* C13 witness: on the chain home -> list -> detail, depth 1 from home
\* stops before detail, depth 2 reaches it, and detail reaches only itself.
ReachableWitness ==
    /\ DOMAIN edges = {<<"home", "list">>, <<"list", "detail">>}
    /\ \E res \in get_reachable_pages(nodes, transitions, "home", 1) :
          {res[i] : i \in DOMAIN res} = {"home", "list"}
    /\ \E res \in get_reachable_pages(nodes, transitions, "home", 2) :
          {res[i] : i \in DOMAIN res} = {"home", "list", "detail"}
    /\ get_reachable_pages(nodes, transitions, "detail", 2) = {<<"detail">>}
    /\ get_reachable_pages(nodes, transitions, "home", 0) = {<<"home">>}

\* The page ids of the page store's specification.
StoreIds == {page_generate_id(a, ui.title, ui) : a \in Apps, ui \in UiHierarchies}

\* C14: get_page of an id never added answers None; add_page(p) makes
\* get_page(p.page_id) answer p, leaves the Page of every other id as it
\* was, and under an id already stored leaves the number of pages as it
\* was.
PageRoundTrip ==
    /\ \A id \in StoreIds : get_page(pages, id) = None
    /\ [][\A p \in PageInputs :
            AddPage(p) =>
               /\ get_page(pages', p.page_id) = p
               /\ \A id \in StoreIds \ {p.page_id} :
                     get_page(pages', id) = get_page(pages, id)
               /\ get_page(pages, p.page_id) # None =>
                     Cardinality(DOMAIN pages') = Cardinality(DOMAIN pages)
               /\ get_page(pages, p.page_id) = None =>
                     Cardinality(DOMAIN pages') = Cardinality(DOMAIN pages) + 1]_vars

\* C14 witness: add_page has replaced a Page the builder had counted a
\* visit on (the stored Page is one of the inputs, visit_count 0, with the
\* description the builder never writes), next to another stored page.
PageRoundTripWitness ==
    /\ reply.op = "add_page"
    /\ Cardinality(DOMAIN pages) = 2
    /\ \E p \in PageInputs :
          /\ p.description = "menu"
          /\ get_page(pages, p.page_id) = p
          /\ \E key \in DOMAIN returned : returned[key] = p.page_id

\* C15 (as claimed): add_page_from_ui returns a Page of the app_id passed;
\* a call with an app_id and hierarchy seen before returns the page id
\* returned then, leaves the number of stored pages as it was and raises
\* that page's visit_count by exactly 1.
SameScreenSamePage ==
    [][reply'.op = "add_page_from_ui" =>
          LET key == <<reply'.app_id, reply'.ui_hierarchy>>
          IN  /\ reply'.page.app_id = reply'.app_id
              /\ key \in DOMAIN returned =>
                    /\ reply'.page.page_id = returned[key]
                    /\ Cardinality(DOMAIN pages') = Cardinality(DOMAIN pages)
                    /\ pages'[returned[key]].visit_count =
                          pages[returned[key]].visit_count + 1]_vars
\* The queries and cut-offs the searches are checked with.
IndexQueries == IndexVectors
TopKs == 0..3

\* The cosine of a query and a stored entry.
ScoreOf(q, entry) == Dot(Normalize(q), entry.vector)

\* The position of an id in the insertion order of a collection.
PositionOf(store, id) ==
    CHOOSE i \in DOMAIN store.vectors : store.vectors[i].id = id

\* r lists distinct stored ids, each with its own score for q and its own
\* metadata, in non-increasing score order, equal scores in insertion order.
IsRanking(store, q, r) ==
    /\ \A i \in DOMAIN r :
          /\ r[i].id \in VectorIds(store)
          /\ r[i].id \in DOMAIN store.metadata
          /\ r[i].metadata = store.metadata[r[i].id]
          /\ RatEq(r[i].score,
                   ScoreOf(q, store.vectors[PositionOf(store, r[i].id)]))
    /\ \A i, j \in DOMAIN r :
          i < j =>
             /\ r[i].id # r[j].id
             /\ ~RatLess(r[i].score, r[j].score)
             /\ RatEq(r[i].score, r[j].score) =>
                   PositionOf(store, r[i].id) < PositionOf(store, r[j].id)

\* C16: search(q, top_k = k) on a collection of n entries returns exactly
\* min(k, n) results, each a distinct stored id with its own metadata, in
\* non-increasing score order with equal scores in insertion order, and no
\* entry left out scores higher than an entry returned.
SearchReturnsTopK ==
    \A q \in IndexQueries, k \in TopKs :
        LET r == search(pageVectors, q, k)
            n == count(pageVectors)
            E == Entries(pageVectors)
        IN  /\ Len(r) = (IF k < n THEN k ELSE n)
            /\ IsRanking(pageVectors, q, r)
            /\ \A e \in DOMAIN E :
                  (\A i \in DOMAIN r : r[i].id # E[e].id) =>
                     \A i \in DOMAIN r :
                        ~RatLess(r[i].score, ScoreOf(q, E[e]))

\* C16 witness: two entries of one direction, inserted b before a, under
\* different metadata; the search for that direction with top_k = 1
\* returns b alone with score 1 and its own metadata, leaving a out.
SearchReturnsTopKWitness ==
    /\ count(pageVectors) = 2
    /\ pageVectors.vectors[1].id = "b"
    /\ pageVectors.vectors[2].id = "a"
    /\ pageVectors.metadata["b"] # pageVectors.metadata["a"]
    /\ LET r == search(pageVectors, <<3, 4>>, 1)
       IN  /\ Len(r) = 1
           /\ r[1].id = "b"
           /\ RatEq(r[1].score, <<1, 1>>)
           /\ RatEq(ScoreOf(<<3, 4>>, Entries(pageVectors)[2]), <<1, 1>>)

\* The stored vector of an entry as a query: its numerators, which search
\* normalises to the stored unit vector again.
StoredVector(entry) == entry.vector.num

\* The entry holds the zero vector, which insert stores without dividing.
IsZero(entry) == IntDot(entry.vector.num, entry.vector.num) = 0

\* C17 as stated: for every stored id x, searching with the vector stored
\* for x returns x as the first result with score 1.0.
SelfSimilarityRanksFirst ==
    \A x \in DOMAIN pageVectors.vectors :
        LET r == search(pageVectors, StoredVector(pageVectors.vectors[x]),
                        count(pageVectors))
        IN  /\ r # <<>>
            /\ r[1].id = pageVectors.vectors[x].id
            /\ RatEq(r[1].score, <<1, 1>>)

\* C17: for every stored id x whose stored vector is not the zero vector,
\* searching with the vector stored for x returns x with score 1.0, no
\* result scores higher, and the first result is the earliest inserted
\* entry that scores 1.0, which is x unless an earlier entry holds the
\* same unit vector.
SelfSimilarityTopScore ==
    \A x \in DOMAIN pageVectors.vectors :
        LET E == Entries(pageVectors)
            q == StoredVector(E[x])
            r == search(pageVectors, q, count(pageVectors))
            same == {i \in DOMAIN E : RatEq(ScoreOf(q, E[i]), <<1, 1>>)}
        IN  ~IsZero(E[x]) =>
               /\ \E i \in DOMAIN r :
                     r[i].id = E[x].id /\ RatEq(r[i].score, <<1, 1>>)
               /\ \A i \in DOMAIN r : ~RatLess(<<1, 1>>, r[i].score)
               /\ RatEq(r[1].score, <<1, 1>>)
               /\ \A i \in same : PositionOf(pageVectors, r[1].id) <= i
               /\ PositionOf(pageVectors, r[1].id) \in same

\* C17 witness: a and b stored in this order with vectors of one
\* direction; searching with the vector stored for b returns a first and b
\* second, both with score 1.0.
SelfSimilarityWitness ==
    /\ count(pageVectors) = 2
    /\ pageVectors.vectors[1].id = "a"
    /\ pageVectors.vectors[2].id = "b"
    /\ ~IsZero(pageVectors.vectors[2])
    /\ LET r == search(pageVectors, StoredVector(pageVectors.vectors[2]), 2)
       IN  /\ r[1].id = "a"
           /\ r[2].id = "b"
           /\ RatEq(r[1].score, <<1, 1>>)
           /\ RatEq(r[2].score, <<1, 1>>)

\* The metadata satisfies the predicate; without a predicate all do.
Qualifies(filter_fn, metadata) ==
    filter_fn = NoneId \/ Apply(filter_fn, metadata)

\* C18: search_with_filter(q, top_k, predicate) filters before the top-k
\* cut: every returned entry's metadata satisfies the predicate, there are
\* min(top_k, number of stored entries satisfying the predicate) results,
\* and they are the highest-scoring qualifying entries in non-increasing
\* score order.
FilterBeforeCut ==
    \A q \in IndexQueries, k \in TopKs, f \in FilterFns :
        LET r == search_with_filter(pageVectors, q, k, f)
            E == Entries(pageVectors)
            Q == {e \in DOMAIN E : Qualifies(f, E[e].metadata)}
        IN  /\ \A i \in DOMAIN r : Qualifies(f, r[i].metadata)
            /\ Len(r) = (IF k < Cardinality(Q) THEN k ELSE Cardinality(Q))
            /\ IsRanking(pageVectors, q, r)
            /\ \A e \in Q :
                  (\A i \in DOMAIN r : r[i].id # E[e].id) =>
                     \A i \in DOMAIN r :
                        ~RatLess(r[i].score, ScoreOf(q, E[e]))

\* C18 witness: the entry that scores highest for the query fails the
\* predicate and a lower-scoring one satisfies it; with top_k = 1 the
\* filtered search returns the qualifying entry, not nothing.
FilterBeforeCutWitness ==
    /\ count(pageVectors) = 2
    /\ search(pageVectors, <<3, 4>>, 1)[1].metadata.app_id = "other"
    /\ LET r == search_with_filter(pageVectors, <<3, 4>>, 1, "is_app")
       IN  /\ Len(r) = 1
           /\ r[1].metadata.app_id = "app"
           /\ RatLess(r[1].score, search(pageVectors, <<3, 4>>, 1)[1].score)

\* C19: count() starts at 0 and always is the number of ids holding a
\* vector, which are the ids holding metadata; an insert adds its id to
\* them, counting one more only for a new id, and leaves the id with the
\* normalised vector and the metadata given and the other ids as they
\* were; a delete removes its id only, and changes nothing when the id is
\* absent; a clear leaves no id.  So count() is the number of distinct ids
\* inserted and not deleted or cleared since.
CountIsLiveIds ==
    /\ count(pageVectors) = 0
    /\ [](/\ VectorIds(pageVectors) = DOMAIN pageVectors.metadata
          /\ count(pageVectors) = Cardinality(VectorIds(pageVectors)))
    /\ [][/\ reply'.op = "insert" =>
               LET id == reply'.id
               IN  /\ VectorIds(pageVectors') = VectorIds(pageVectors) \cup {id}
                   /\ count(pageVectors') =
                         count(pageVectors) +
                         (IF id \in VectorIds(pageVectors) THEN 0 ELSE 1)
                   /\ get(pageVectors', id) =
                         <<Normalize(reply'.vector), reply'.metadata>>
                   /\ \A o \in IndexIds \ {id} :
                         get(pageVectors', o) = get(pageVectors, o)
          /\ reply'.op = "delete" =>
               LET id == reply'.id
               IN  /\ VectorIds(pageVectors') = VectorIds(pageVectors) \ {id}
                   /\ id \notin VectorIds(pageVectors) =>
                         pageVectors' = pageVectors
                   /\ \A o \in IndexIds \ {id} :
                         get(pageVectors', o) = get(pageVectors, o)
          /\ reply'.op = "clear" =>
               /\ VectorIds(pageVectors') = {}
               /\ count(pageVectors') = 0]_vars

\* C19 witness: a delete of an id the collection does not hold has just
\* been made on a collection of MaxEntries ids, which are all still there.
CountIsLiveIdsWitness ==
    /\ reply.op = "delete"
    /\ reply.id \notin VectorIds(pageVectors)
    /\ count(pageVectors) = MaxEntries
    /\ DOMAIN pageVectors.metadata = VectorIds(pageVectors)

\* What match_page is asked with.
Screenshots == {<<>>, <<4, 3>>, <<-4, -3>>}
Titles == {NoneId, "home", "list"}
Strategies == {"structural", "visual", "hybrid"}

\* The merged score of a page id in a candidates list: the mean of its
\* scores, times 1.1 and at most 1.0 when several strategies name it.
MergedScore(c, id) ==
    LET mine == {i \in DOMAIN c : c[i].page_id = id}
        kinds == {c[i].match_type : i \in mine}
        Mine(x) == x.page_id = id
        sum == SumScores(SelectSeq(c, Mine))
        mean == <<sum[1], sum[2] * Cardinality(mine)>>
        more == <<mean[1] * 11, mean[2] * 10>>
    IN  IF Cardinality(kinds) > 1
        THEN (IF RatLess(more, <<1, 1>>) THEN more ELSE <<1, 1>>)
        ELSE mean

\* C20: match_page returns 'not matched' exactly when no strategy
\* produced a candidate; with a candidate it returns the candidate of the
\* highest merged score, with that score, and one available action per
\* outgoing transition of that page.
MatchReturnsBest ==
    \A app_id \in Apps, ui \in Observations \cup {None}, emb \in Screenshots,
       page_title \in Titles, strategy \in Strategies :
        \A c \in match_candidates(pages, pageVectors, app_id, ui, emb,
                                  page_title, strategy) :
            \A r \in match_result(pages, transitions, c) :
                /\ (r = None) <=> (c = <<>>)
                /\ r # None =>
                      LET out == get_outgoing_transitions(transitions, r.page_id)
                      IN  /\ \E i \in DOMAIN c : c[i].page_id = r.page_id
                          /\ RatEq(r.confidence, MergedScore(c, r.page_id))
                          /\ \A i \in DOMAIN c :
                                ~RatLess(r.confidence, MergedScore(c, c[i].page_id))
                          /\ Len(r.available_actions) = Len(out)
                          /\ \A i \in DOMAIN out :
                                /\ r.available_actions[i].action = out[i].action_type
                                /\ r.available_actions[i].target = out[i].target_page_id

\* The number of entries of a candidates list with the id and the label.
Entered(c, id, ty) ==
    Cardinality({i \in DOMAIN c : c[i].page_id = id /\ c[i].match_type = ty})

\* C21: merging yields exactly one entry per distinct candidate page id;
\* its score is the mean of the candidate scores of that id, times 1.1 and
\* capped at 1.0 if and only if at least two distinct strategies named the
\* id; its label is a strategy that contributed the most entries for the
\* id; the entries are in non-increasing score order, and no merged score
\* exceeds 1.0 (the input scores are at most 1.0).
MergeIsMeanWithBonus ==
    reply.op = "merge_candidates" =>
        LET c == collected
            m == reply.merged
            ids == {c[i].page_id : i \in DOMAIN c}
        IN  /\ {m[i].page_id : i \in DOMAIN m} = ids
            /\ Len(m) = Cardinality(ids)
            /\ \A i \in DOMAIN m :
                  LET id == m[i].page_id
                      Mine(x) == x.page_id = id
                      mine == SelectSeq(c, Mine)
                      kinds == {mine[j].match_type : j \in DOMAIN mine}
                      sum == SumScores(mine)
                      mean == <<sum[1], sum[2] * Len(mine)>>
                      more == <<mean[1] * 11, mean[2] * 10>>
                  IN  /\ Cardinality(kinds) >= 2 =>
                            RatEq(m[i].score,
                                  IF RatLess(more, <<1, 1>>) THEN more ELSE <<1, 1>>)
                      /\ Cardinality(kinds) < 2 => RatEq(m[i].score, mean)
                      /\ m[i].types # {}
                      /\ \A ty \in m[i].types :
                            /\ ty \in kinds
                            /\ \A o \in MatchTypes : Entered(c, id, o) <= Entered(c, id, ty)
                      /\ ~RatLess(<<1, 1>>, m[i].score)
            /\ \A i, j \in DOMAIN m :
                  i < j => ~RatLess(m[i].score, m[j].score)

\* C21 witness: three candidates for two pages; "list", named by two
\* strategies with scores 0.8 and 1.0, merges to 0.99 and sorts before
\* "home", which was collected first with 0.8 from one strategy.
MergeWitness ==
    /\ reply.op = "merge_candidates"
    /\ Len(collected) = 3
    /\ collected[1].page_id = "home"
    /\ Len(reply.merged) = 2
    /\ reply.merged[1].page_id = "list"
    /\ RatEq(reply.merged[1].score, <<99, 100>>)
    /\ RatEq(reply.merged[2].score, <<4, 5>>)

\* C22: whenever PageMatcher resolves the observation to a stored page,
\* the answers of KGClient.match_current_page and of the match-page route
\* have matched = true and page = {page_id, page_name, confidence} of that
\* page; matched = false is answered only when no page was resolved.
MatchAnswerShape ==
    \A app_id \in Apps, ui \in Observations \cup {None}, page_title \in Titles :
        \A r \in match_page(pages, transitions, pageVectors, app_id, ui, <<>>,
                            page_title, "hybrid") :
            LET answer == match_current_page(r)
                routed == route_match_page(answer)
                Resolved(a) ==
                    /\ {"matched", "page", "available_actions", "candidates"}
                          \subseteq DOMAIN a
                    /\ a.matched
                    /\ a.page = [page_id    |-> r.page_id,
                                 page_name  |-> r.page_name,
                                 confidence |-> r.confidence]
            IN  /\ r # None => Resolved(answer) /\ Resolved(routed)
                /\ r = None => ~answer.matched /\ ~routed.matched

\* An item batch_add_transitions is to reject: without from_page or
\* to_page, or with an action type that is none of ActionType's.
Invalid(item) ==
    \/ item.from_page = NoneId
    \/ item.to_page = NoneId
    \/ item.action_type \notin ActionTypes

\* C23: for every batch, total = len(input) = created + updated + failed,
\* len(errors) = failed and success is true iff failed = 0; the items
\* without from_page or to_page or with an invalid action type are the
\* failed ones, and the store ends as the batch without them leaves it.
BatchIsolatesFailures ==
    [][reply'.op = "batch_add_transitions" =>
          LET items == reply'.items
              Valid(item) == ~Invalid(item)
              valid == batch_add_transitions(transitions, nodes, edges,
                                             SelectSeq(items, Valid))
          IN  /\ reply'.total = Len(items)
              /\ reply'.total = reply'.created + reply'.updated + reply'.failed
              /\ Len(reply'.errors) = reply'.failed
              /\ reply'.success <=> (reply'.failed = 0)
              /\ reply'.failed = Len(items) - Len(SelectSeq(items, Valid))
              /\ transitions' = valid.transitions
              /\ nodes' = valid.nodes
              /\ edges' = valid.edges]_vars

\* Two dicts of Transition.to_dict with the same entries; the success
\* rates are compared as numbers.
SameDict(x, y) ==
    /\ x.transition_id = y.transition_id
    /\ x.source_page_id = y.source_page_id
    /\ x.target_page_id = y.target_page_id
    /\ x.action_type = y.action_type
    /\ x.success_count = y.success_count
    /\ RatEq(x.success_rate, y.success_rate)

\* The statistics a Transition between the pages of t can have.
WithStatistics(t) ==
    {[t EXCEPT !.success_count = k, !.fail_count = m, !.avg_latency_ms = l] :
        k \in 0..MaxCount, m \in 0..MaxCount, l \in 0..3}

\* C24: the value of export_to_dict() suffices to rebuild the store's
\* transitions with their statistics: a Transition whose dict is the
\* exported one has the success_count, fail_count, success rate and
\* avg_latency_ms of the stored Transition.
ExportDeterminesStatistics ==
    reply.op = "export_to_dict" =>
        /\ DOMAIN reply.export.pages = DOMAIN pages
        /\ DOMAIN reply.export.transitions = DOMAIN transitions
        /\ \A i \in DOMAIN transitions :
              \A u \in WithStatistics(transitions[i]) :
                  SameDict(to_dict(u), reply.export.transitions[i]) =>
                      /\ u.success_count = transitions[i].success_count
                      /\ u.fail_count = transitions[i].fail_count
                      /\ u.avg_latency_ms = transitions[i].avg_latency_ms
                      /\ RatEq(success_rate(u), success_rate(transitions[i]))

\* C25: in the RAGContext of retrieve with a current page, the suggested
\* actions made of the page's outgoing transitions are at most five and in
\* non-increasing order of success rate; the confidence is that of
\* PathFinder's resolution when a path was found, and 0 without a current
\* page or without a path.
SuggestionsRankedBySuccess ==
    reply.op = "retrieve" =>
        LET context   == reply.context
            current   == reply.current_page_id
            suggested == context.suggested_actions
            outgoing  == IF current = NoneId THEN <<>>
                         ELSE get_outgoing_transitions(transitions, current)
            n         == IF Len(outgoing) < 5 THEN Len(outgoing) ELSE 5
            from      == Len(suggested) - n
            results   == IF current = NoneId THEN {}
                         ELSE find_path_by_intent(AppId, reply.query, current,
                                                  DefaultMaxSteps)
        IN  /\ from >= 0
            /\ \A i, j \in (from + 1)..Len(suggested) :
                  i < j => ~RatLess(suggested[i].confidence, suggested[j].confidence)
            /\ current = NoneId => context.confidence = <<0, 1>>
            /\ current # NoneId =>
                  \E result \in results :
                      IF result.success
                      THEN context.confidence = result.confidence
                      ELSE context.confidence = <<0, 1>>

\* The pages reached from the pages of S through any number of
\* transitions of d, those of S included.
RECURSIVE ClosureOf(_, _)
ClosureOf(d, S) ==
    LET more == S \cup {d[i].target_page_id : i \in {x \in DOMAIN d : d[x].source_page_id \in S}}
    IN  IF more = S THEN S ELSE ClosureOf(d, more)

\* C27: get_reachable_intents(current_page) answers, without duplicates,
\* exactly the intents of the stored pages reachable from current_page
\* through any number of transitions, current_page included.
ReachableIntentsAreClosure ==
    reply.op = "get_reachable_intents" =>
        LET answer  == reply.answer
            closure == ClosureOf(transitions, {reply.current_page_id})
            stored  == {id \in closure : get_page(pages, id) # None}
        IN  /\ \A i, j \in DOMAIN answer : answer[i] = answer[j] => i = j
            /\ {answer[i] : i \in DOMAIN answer} =
                  UNION {{pages[id].intents[j] : j \in DOMAIN pages[id].intents} :
                            id \in stored}

\* The operations that are queries.
QueryOps ==
    {"find_path_by_intent", "get_next_action", "get_reachable_intents",
     "match_page", "retrieve", "generate_action_guidance"}

\* The answer the last step gave is one the same query gives when it is
\* asked again now.
AnswerRepeats ==
    CASE reply.op = "find_path_by_intent" ->
            reply.result \in find_path_by_intent(AppId, reply.intent,
                                                 reply.current_page_id, reply.max_steps)
      [] reply.op = "get_next_action" ->
            \E result \in find_path_by_intent("", reply.intent, reply.current_page_id,
                                               DefaultMaxSteps) :
                reply.answer = next_action(result)
      [] reply.op = "get_reachable_intents" ->
            reply.answer \in get_reachable_intents(reply.current_page_id)
      [] reply.op = "match_page" ->
            reply.result \in match_page(pages, transitions, pageVectors, AppId,
                                        reply.ui_hierarchy, <<>>, reply.page_title,
                                        "hybrid")
      [] reply.op = "retrieve" ->
            reply.context \in retrieve(AppId, reply.query, reply.current_page_id)
      [] reply.op = "generate_action_guidance" ->
            reply.guidance \in generate_action_guidance(AppId, reply.intent,
                                                        reply.current_page_id,
                                                        reply.current_ui)
      [] OTHER -> TRUE

\* C26: a query (find_path_by_intent, get_next_action,
\* get_reachable_intents, match_page, retrieve, generate_action_guidance)
\* leaves the pages, the transitions with their counters, the adjacency
\* and both vector collections as they were, and the query asked again
\* right after it gives the answer it gave.
QueriesAreReadOnly ==
    /\ [](reply.op \in QueryOps => AnswerRepeats)
    /\ [][reply'.op \in QueryOps =>
             /\ pages' = pages
             /\ transitions' = transitions
             /\ nodes' = nodes
             /\ edges' = edges
             /\ intents' = intents
             /\ pageVectors' = pageVectors]_vars

\* A retrieve that found a path has answered in a store with pages,
\* transitions and vectors.
QueriesWitness ==
    /\ reply.op = "retrieve"
    /\ reply.context.retrieved_paths # <<>>
    /\ reply.context.retrieved_pages # <<>>
    /\ transitions # <<>>

\* C28: a path query made with max_steps = m that succeeds answers a
\* primary path of at most m steps, and alternatives of at most m steps
\* each.
PathsWithinMaxSteps ==
    (reply.op = "find_path_by_intent" /\ reply.result.success) =>
        /\ total_steps(reply.result.path) <= reply.max_steps
        /\ \A i \in DOMAIN reply.result.alternatives :
              total_steps(reply.result.alternatives[i]) <= reply.max_steps

\* The page the intent resolves to, as find_path_by_intent resolves it.
TargetOf(intent) ==
    ResolveTarget(search(intents, encode_single(intent), 3),
                  search(pageVectors, encode_single(intent), 3)).target_page_id

\* The number of transitions of a shortest way from page a to page b, and
\* Unreachable when there is none.
Unreachable == Cardinality(PageIds) + 1
HopDistance(a, b) ==
    IF a \notin PageIds \/ b \notin PageIds THEN Unreachable
    ELSE LET levels == BfsLevels(edges, {a}, {a}, <<>>)
             hit    == {k \in DOMAIN levels : b \in levels[k]}
         IN  IF hit = {} THEN Unreachable ELSE (CHOOSE k \in hit : TRUE) - 1

\* The agent stands on a page from which the intent's target is reachable.
CanArrive ==
    /\ agent # None
    /\ HopDistance(agent.current_page, TargetOf("order food")) < Unreachable

\* C29: with the stores unchanged, an agent that starts on a page from
\* which the intent's target page is reachable and keeps asking for the
\* next action and going to its expected_page comes one hop closer to the
\* target with every round, eventually stands on the target page, and is
\* told is_complete on the target page and never before.
GuidedNavigationArrives ==
    /\ [][(reply'.op = "guidance_round" /\ CanArrive) =>
             LET target == TargetOf("order food")
             IN  /\ agent.current_page # target =>
                       HopDistance(agent'.current_page, target) <
                          HopDistance(agent.current_page, target)
                 /\ reply'.next_action.is_complete => agent.current_page = target]_vars
    /\ CanArrive ~> (agent # None /\ agent.current_page = TargetOf("order food"))

\* ------------------------------------------- the store and its adjacency
\* The pages of the model of the adjacency structure; a transition may
\* lead from a page to itself.
AdjPages == {"home", "list"}

NextAdjacency ==
    \/ \E p \in AdjPages : AddPage(DefaultPage(p))
    \/ \E s \in AdjPages, t \in AdjPages :
          /\ RoomFor(generate_id(s, t, "click"), MaxTransitions)
          /\ AddTransition(s, t, "click")
    \/ \E s \in AdjPages, t \in AdjPages, ok \in BOOLEAN :
          /\ BelowMaxCount
          /\ UpdateTransitionStats(generate_id(s, t, "click"), ok, 0)
    \/ GraphClear

SpecAdjacency == Init /\ [][NextAdjacency]_vars

\* The page pairs joined by a stored Transition.
StoredPairs ==
    {<<transitions[i].source_page_id, transitions[i].target_page_id>> :
        i \in DOMAIN transitions}

\* The targets of get_outgoing_transitions(p) and the sources of
\* get_incoming_transitions(p).
OutgoingTargets(p) ==
    {get_outgoing_transitions(transitions, p)[i].target_page_id :
        i \in DOMAIN get_outgoing_transitions(transitions, p)}

IncomingSources(p) ==
    {get_incoming_transitions(transitions, p)[i].source_page_id :
        i \in DOMAIN get_incoming_transitions(transitions, p)}

\* The pages other than p of every answer of get_reachable_pages(p, 1).
OneHopOthers(p) ==
    {{r[i] : i \in DOMAIN r} \ {p} :
        r \in get_reachable_pages(nodes, transitions, p, 1)}

\* The edges of the adjacency structure are the page pairs of the stored
\* Transitions, the sources of the transitions entering a page are the
\* pages with an edge into it, and get_reachable_pages(p, 1) follows the
\* edges leaving p.
EdgesAreStoredPairs ==
    /\ DOMAIN edges = StoredPairs
    /\ \A p \in AdjPages :
          /\ IncomingSources(p) = {s \in PageIds : <<s, p>> \in DOMAIN edges}
          /\ OneHopOthers(p) = {Successors(edges, p) \ {p}}

\* C30 as stated: the transition map and the adjacency structure hold the
\* same page pairs, and for every page p the targets of
\* get_outgoing_transitions(p) are the pages other than p of
\* get_reachable_pages(p, 1).
AdjacencyConsistent ==
    /\ EdgesAreStoredPairs
    /\ \A p \in AdjPages : OneHopOthers(p) = {OutgoingTargets(p)}

\* C30, amended: the transition map and the adjacency structure hold the
\* same page pairs, and for every page p the targets other than p of
\* get_outgoing_transitions(p) are the pages other than p of
\* get_reachable_pages(p, 1); the sources of get_incoming_transitions(p)
\* are the pages with an edge into p.
AdjacencyConsistentButSelfLoops ==
    /\ EdgesAreStoredPairs
    /\ \A p \in AdjPages : OneHopOthers(p) = {OutgoingTargets(p) \ {p}}

\* A page with a transition to itself and one to another page, after the
\* statistics of a transition were updated.
AdjacencyWitness ==
    /\ reply.op = "update_transition_stats"
    /\ <<"home", "home">> \in StoredPairs
    /\ <<"home", "list">> \in StoredPairs
    /\ TotalCount(transitions) > 0

====
